---------------------------- MODULE Spec2Model ----------------------------
(***************************************************************************)
(* A model of cJSON (src/cJSON.c): the recursive-descent parser with its   *)
(* string decoder, the allocation hooks seen as a heap of blocks, the      *)
(* recursive delete, and the standalone (per-subtree) printer.             *)
(*                                                                         *)
(* Bytes are the integers 0..255.  A text is a sequence of non-zero bytes; *)
(* in memory it is followed by its NUL terminator and then by bytes that   *)
(* do not belong to it.  Pointers into a text are 1-based indexes, heap    *)
(* pointers are block numbers, and the null pointer is 0 for both.         *)
(***************************************************************************)
EXTENDS Integers, Sequences, FiniteSets, TLC

VARIABLES
    text,        \* the input bytes handed to the call (without the NUL)
    val,         \* the JSON value the input was derived from, or NoVal
    phase,       \* "ready", "parsed", "printed", "reparsed"
    heap,        \* the blocks handed out by the allocation hook so far
    root,        \* the pointer the parse call returned (NULL on failure)
    ret,         \* parse_string's return value (an index into text, or NULL)
    errp,        \* the error pointer the call reports (*ep / global_ep)
    maxRead,     \* the highest index of the input the call has read
    flags,       \* what went wrong inside: double free, failed allocation ...
    opts,        \* the options the parse call was made with
    out,         \* the printed text, or NoText
    held,        \* the items the caller holds that are in no child list
    steps,       \* the number of calls made on the items so far
    pb           \* the printbuffer after a call that prints into a buffer

vars ==
    <<text, val, phase, heap, root, ret, errp, maxRead, flags, opts, out, held,
      steps, pb>>

NULL == 0

NoVal == [k |-> "none"]

NoText == <<0>>

NoBuffer ==
    [buffer |-> NULL, length |-> 0, offset |-> 0, noalloc |-> FALSE, wr |-> 0,
     fill |-> 0, at |-> 0, beyond |-> 0]

Max(a, b) == IF a > b THEN a ELSE b

(***************************************************************************)
(* Bit operations of C on non-negative integers.                           *)
(***************************************************************************)
RECURSIVE BitAnd(_, _)
BitAnd(a, b) ==
    IF a = 0 \/ b = 0 THEN 0
    ELSE (a % 2) * (b % 2) + 2 * BitAnd(a \div 2, b \div 2)

RECURSIVE BitOr(_, _)
BitOr(a, b) ==
    IF a = 0 THEN b
    ELSE IF b = 0 THEN a
    ELSE Max(a % 2, b % 2) + 2 * BitOr(a \div 2, b \div 2)

(***************************************************************************)
(* Memory around the input.  m.t is the text, m.g the byte found in the    *)
(* bytes after the terminator (what an over-read gets is not determined by *)
(* the program: every action draws m.g from Garbage).  The region after    *)
(* the terminator is SlackLen bytes long and followed by a zero byte.      *)
(***************************************************************************)
SlackLen == 12

Garbage == {0, 34, 48}

Mem(t, g) == [t |-> t, g |-> g]

Rd(m, i) ==
    IF i >= 1 /\ i <= Len(m.t) THEN m.t[i]
    ELSE IF i = Len(m.t) + 1 THEN 0
    ELSE IF i >= 1 /\ i <= Len(m.t) + 1 + SlackLen THEN m.g
    ELSE 0

NulAt(t) == Len(t) + 1

(***************************************************************************)
(* The heap.  malloc_fn hands out block numbers in order and never reuses  *)
(* one, so a released block stays recognisable.  ctx.failAt = n makes the  *)
(* n-th allocation of the call return NULL (0: none fails).                *)
(***************************************************************************)
NewNode ==
    [kind |-> "node", live |-> TRUE, type |-> "Zero", next |-> NULL,
     child |-> NULL, string |-> NULL, name |-> NULL,
     number |-> [cls |-> "fin", neg |-> FALSE, m |-> 0, e |-> 0],
     is_reference |-> FALSE, string_is_const |-> FALSE]

NewStr(cap) == [kind |-> "str", live |-> TRUE, cap |-> cap, bytes |-> <<>>]

Ctx(h, failAt) ==
    [heap |-> h, nm |-> 0, failAt |-> failAt, ep |-> NULL, rd |-> 0,
     dfree |-> FALSE, uaf |-> FALSE, oob |-> FALSE, nomem |-> FALSE]

Touch(c, i) == [c EXCEPT !.rd = Max(@, i)]

malloc_fn(c, blk) ==
    IF c.nm + 1 = c.failAt
    THEN [c |-> [c EXCEPT !.nm = @ + 1, !.nomem = TRUE], p |-> NULL]
    ELSE [c |-> [c EXCEPT !.nm = @ + 1, !.heap = Append(@, blk)],
          p |-> Len(c.heap) + 1]

free_fn(c, p) ==
    IF c.heap[p].live
    THEN [c EXCEPT !.heap[p].live = FALSE]
    ELSE [c EXCEPT !.dfree = TRUE]

cJSON_New_Item(c) == malloc_fn(c, NewNode)

(***************************************************************************)
(* parse_hex4: four hexadecimal digits starting at str.  h is the value    *)
(* (0 when a digit is invalid), rd the index of the last byte it read.     *)
(***************************************************************************)
(* A digit test that takes every capital letter for a digit. *)
HexDigit_AnyCapital(b) ==
    IF b >= 48 /\ b <= 57 THEN b - 48
    ELSE IF b >= 65 /\ b <= 90 THEN 10 + b - 65
    ELSE IF b >= 97 /\ b <= 102 THEN 10 + b - 97
    ELSE -1

HexDigit(b) ==
    IF b >= 48 /\ b <= 57 THEN b - 48
    ELSE IF b >= 65 /\ b <= 70 THEN 10 + b - 65
    ELSE IF b >= 97 /\ b <= 102 THEN 10 + b - 97
    ELSE -1

RECURSIVE hex4_loop(_, _, _, _)
hex4_loop(m, str, i, h) ==
    IF i = 4 THEN [h |-> h, rd |-> str]
    ELSE LET d == HexDigit(Rd(m, str))
         IN  IF d < 0 THEN [h |-> 0, rd |-> str]
             ELSE IF i < 3 THEN hex4_loop(m, str + 1, i + 1, (h + d) * 16)
             ELSE hex4_loop(m, str, i + 1, h + d)

(* parse_hex4 reading all four bytes before it looks at any of them. *)
parse_hex4_FourBytes(m, str) ==
    [h  |-> IF \E k \in 0..3 : HexDigit(Rd(m, str + k)) < 0 THEN 0
            ELSE hex4_loop(m, str, 0, 0).h,
     rd |-> str + 3]

parse_hex4(m, str) == hex4_loop(m, str, 0, 0)

(***************************************************************************)
(* The UTF-8 encoding step of parse_string: the length by the thresholds,  *)
(* the continuation bytes written from the last one backwards, then the    *)
(* first byte with its mark.                                               *)
(***************************************************************************)
firstByteMark == <<0, 0, 192, 224, 240>>

utf8_length(uc) ==
    IF uc < 128 THEN 1
    ELSE IF uc < 2048 THEN 2
    ELSE IF uc < 65536 THEN 3
    ELSE 4

RECURSIVE utf8_write(_, _, _, _)
utf8_write(uc, k, len, acc) ==
    IF k = 1
    THEN <<BitAnd(BitOr(uc, firstByteMark[len + 1]), 255)>> \o acc
    ELSE utf8_write(uc \div 64, k - 1, len,
                    <<BitAnd(BitOr(uc, 128), 191)>> \o acc)

utf8_encode(uc) == utf8_write(uc, utf8_length(uc), utf8_length(uc), <<>>)

(* The pair combined without the offset of the supplementary planes. *)
surrogate_pair_NoOffset(uc, uc2) ==
    BitOr(BitAnd(uc, 1023) * 1024, BitAnd(uc2, 1023))

surrogate_pair(uc, uc2) ==
    65536 + BitOr(BitAnd(uc, 1023) * 1024, BitAnd(uc2, 1023))

(***************************************************************************)
(* parse_string, first loop: find the end of the literal.  A backslash     *)
(* and the byte after it are one unit; a backslash right before the NUL    *)
(* fails.  The loop stops at a quote or at the NUL.                        *)
(***************************************************************************)
(* The scan taking a backslash before the NUL as the end of the literal. *)
RECURSIVE scan_string_StopAtCut(_, _, _)
scan_string_StopAtCut(m, end_ptr, len) ==
    LET b == Rd(m, end_ptr)
    IN  IF b = 34 \/ b = 0
        THEN [ok |-> TRUE, end_ptr |-> end_ptr, len |-> len, rd |-> end_ptr]
        ELSE IF b = 92
        THEN IF Rd(m, end_ptr + 1) = 0
             THEN [ok |-> TRUE, end_ptr |-> end_ptr, len |-> len,
                   rd |-> end_ptr + 1]
             ELSE scan_string_StopAtCut(m, end_ptr + 2, len + 1)
        ELSE scan_string_StopAtCut(m, end_ptr + 1, len + 1)

(* The scan that does not count a backslash and the byte after it. *)
RECURSIVE scan_string_PairUncounted(_, _, _)
scan_string_PairUncounted(m, end_ptr, len) ==
    LET b == Rd(m, end_ptr)
    IN  IF b = 34 \/ b = 0
        THEN [ok |-> TRUE, end_ptr |-> end_ptr, len |-> len, rd |-> end_ptr]
        ELSE IF b = 92
        THEN IF Rd(m, end_ptr + 1) = 0
             THEN [ok |-> FALSE, end_ptr |-> end_ptr + 1, len |-> len,
                   rd |-> end_ptr + 1]
             ELSE scan_string_PairUncounted(m, end_ptr + 2, len)
        ELSE scan_string_PairUncounted(m, end_ptr + 1, len + 1)

RECURSIVE scan_string(_, _, _)
scan_string(m, end_ptr, len) ==
    LET b == Rd(m, end_ptr)
    IN  IF b = 34 \/ b = 0
        THEN [ok |-> TRUE, end_ptr |-> end_ptr, len |-> len, rd |-> end_ptr]
        ELSE IF b = 92
        THEN IF Rd(m, end_ptr + 1) = 0
             THEN [ok |-> FALSE, end_ptr |-> end_ptr + 1, len |-> len,
                   rd |-> end_ptr + 1]
             ELSE scan_string(m, end_ptr + 2, len + 1)
        ELSE scan_string(m, end_ptr + 1, len + 1)

(***************************************************************************)
(* parse_string, second loop: decode the literal into the buffer.  buf is  *)
(* what has been written through ptr2 so far.                              *)
(***************************************************************************)
RECURSIVE decode_string(_, _, _, _, _)
decode_string(m, end_ptr, ptr, buf, rd) ==
    IF ~(ptr < end_ptr)
    THEN [ok |-> TRUE, ptr |-> ptr, buf |-> buf, rd |-> rd]
    ELSE
    LET b    == Rd(m, ptr)
        e    == Rd(m, ptr + 1)
        bad(r) == [ok |-> FALSE, ptr |-> ptr, buf |-> buf, rd |-> Max(rd, r)]
        one(x) == decode_string(m, end_ptr, ptr + 2, Append(buf, x),
                                Max(rd, ptr + 1))
    IN  IF b # 92
        THEN decode_string(m, end_ptr, ptr + 1, Append(buf, b), Max(rd, ptr))
        ELSE CASE e = 98  -> one(8)
               [] e = 102 -> one(12)
               [] e = 110 -> one(10)
               [] e = 114 -> one(13)
               [] e = 116 -> one(9)
               [] e \in {34, 92, 47} -> one(e)
               [] e = 117 ->
                    LET h1 == parse_hex4(m, ptr + 2)
                        uc == h1.h
                        p4 == ptr + 5
                    IN  IF p4 >= end_ptr THEN bad(h1.rd)
                        ELSE IF (uc >= 56320 /\ uc <= 57343) \/ uc = 0
                        THEN bad(h1.rd)
                        ELSE IF uc >= 55296 /\ uc <= 56319
                        THEN IF p4 + 6 > end_ptr THEN bad(h1.rd)
                             ELSE IF Rd(m, p4 + 1) # 92 THEN bad(p4 + 1)
                             ELSE IF Rd(m, p4 + 2) # 117 THEN bad(p4 + 2)
                             ELSE LET h2  == parse_hex4(m, p4 + 3)
                                      uc2 == h2.h
                                  IN  IF uc2 < 56320 \/ uc2 > 57343
                                      THEN bad(h2.rd)
                                      ELSE decode_string(m, end_ptr, p4 + 7,
                                             buf \o utf8_encode(
                                                 surrogate_pair(uc, uc2)),
                                             Max(rd, h2.rd))
                        ELSE decode_string(m, end_ptr, p4 + 1,
                                           buf \o utf8_encode(uc),
                                           Max(rd, h1.rd))
               [] OTHER -> bad(ptr + 1)

(***************************************************************************)
(* parse_string(item, str, ep, hooks).  The result is the context after    *)
(* the call and the returned pointer r.                                    *)
(***************************************************************************)
parse_string(c, m, item, str) ==
    IF Rd(m, str) # 34
    THEN [c |-> [Touch(c, str) EXCEPT !.ep = str], r |-> NULL]
    ELSE
    LET sc == scan_string(m, str + 1, 0)
        c1 == Touch(c, sc.rd)
    IN  IF ~sc.ok THEN [c |-> c1, r |-> NULL]
        ELSE
        LET a  == malloc_fn(c1, NewStr(sc.len + 1))
        IN  IF a.p = NULL THEN [c |-> a.c, r |-> NULL]
            ELSE
            LET c2 == [a.c EXCEPT !.heap[item].string = a.p,
                                  !.heap[item].type = "String"]
                d  == decode_string(m, sc.end_ptr, str + 1, <<>>, 0)
                c3 == [Touch(c2, d.rd) EXCEPT
                          !.heap[a.p].bytes = d.buf,
                          !.oob = @ \/ (Len(d.buf) + (IF d.ok THEN 1 ELSE 0)
                                          > sc.len + 1)]
            IN  IF ~d.ok
                THEN [c |-> free_fn([c3 EXCEPT !.ep = str], a.p), r |-> NULL]
                ELSE [c |-> Touch(c3, d.ptr),
                      r |-> IF Rd(m, d.ptr) = 34 THEN d.ptr + 1 ELSE d.ptr]

(***************************************************************************)
(* print_string_ptr without a print buffer (p == NULL): the escaped text   *)
(* of a payload in a block of its own.  str is the payload's block or      *)
(* NULL.  The result is the text written (without its NUL) and the size    *)
(* that was allocated for it.                                              *)
(***************************************************************************)
NeedsEscape(b) == (b > 0 /\ b < 32) \/ b = 34 \/ b = 92

(* "%04X" in place of "%04x" *)
HexChar_Upper(d) == IF d < 10 THEN 48 + d ELSE 55 + d

HexChar(d) == IF d < 10 THEN 48 + d ELSE 87 + d

RECURSIVE escaped_length(_, _)
escaped_length(s, i) ==
    IF i > Len(s) THEN 0
    ELSE LET token == s[i]
         IN  (IF token \in {34, 92, 8, 12, 10, 13, 9} THEN 2
              ELSE IF token < 32 THEN 6
              ELSE 1) + escaped_length(s, i + 1)

escape_byte(token) ==
    CASE token = 92 -> <<92, 92>>
      [] token = 34 -> <<92, 34>>
      [] token = 8  -> <<92, 98>>
      [] token = 12 -> <<92, 102>>
      [] token = 10 -> <<92, 110>>
      [] token = 13 -> <<92, 114>>
      [] token = 9  -> <<92, 116>>
      [] OTHER -> <<92, 117, 48, 48, HexChar((token \div 16) % 16),
                    HexChar(token % 16)>>

RECURSIVE escape_copy(_, _)
escape_copy(s, i) ==
    IF i > Len(s) THEN <<>>
    ELSE (IF s[i] > 31 /\ s[i] # 34 /\ s[i] # 92 THEN <<s[i]>>
          ELSE escape_byte(s[i])) \o escape_copy(s, i + 1)

print_string_ptr(h, str) ==
    IF str = NULL THEN [bytes |-> <<34, 34>>, size |-> 3]
    ELSE LET s == h[str].bytes
         IN  IF \A i \in 1..Len(s) : ~NeedsEscape(s[i])
             THEN [bytes |-> <<34>> \o s \o <<34>>, size |-> Len(s) + 3]
             ELSE [bytes |-> <<34>> \o escape_copy(s, 1) \o <<34>>,
                   size |-> escaped_length(s, 1) + 3]

print_string(h, item) == print_string_ptr(h, h[item].string)

(***************************************************************************)
(* Inputs of the string decoder: an opening quote (or none), a few pieces  *)
(* and a closing quote (or none).  The pieces are plain bytes, a raw       *)
(* control byte, the escapes, and \u escapes over chosen code units.       *)
(***************************************************************************)
MaxPieces == 2

HexQuads ==
    { <<48, 48, 52, 49>>,      \* 0041
      <<48, 48, 48, 49>>,      \* 0001
      <<48, 48, 101, 57>>,     \* 00e9
      <<48, 55, 70, 70>>,      \* 07FF
      <<50, 48, 65, 67>>,      \* 20AC
      <<70, 70, 70, 70>>,      \* FFFF
      <<48, 48, 48, 48>>,      \* 0000
      <<68, 56, 48, 48>>,      \* D800
      <<68, 66, 70, 70>>,      \* DBFF
      <<68, 67, 48, 48>>,      \* DC00
      <<68, 70, 70, 70>>,      \* DFFF
      <<48, 48, 56, 48>>,      \* 0080
      <<48, 56, 48, 48>>,      \* 0800
      <<48, 48, 71, 49>>,      \* 00G1
      <<49, 50>> }             \* 12 (cut short)

CorePieces ==
    { <<97>>, <<92>>, <<34>>, <<92, 110>>, <<92, 34>>, <<92, 92>>,
      <<92, 120>>,
      <<92, 117, 48, 48, 52, 49>>,      \* \u0041
      <<92, 117, 50, 48, 65, 67>>,      \* \u20AC
      <<92, 117, 48, 48, 48, 48>>,      \* \u0000
      <<92, 117, 68, 56, 51, 68>>,      \* \uD83D
      <<92, 117, 100, 99, 51, 49>> }    \* \udc31

Pieces ==
    CorePieces
    \cup { <<8>>, <<195>>, <<117>>, <<48>>,
           <<92, 98>>, <<92, 102>>, <<92, 114>>, <<92, 116>>, <<92, 47>>,
           <<92, 117>>,
           <<92, 117, 68, 56, 51, 68, 92, 117, 100, 99, 51, 49>>,
           <<92, 117, 68, 56, 51, 68, 92, 110>> }
    \cup { <<92, 117>> \o q : q \in HexQuads }

RECURSIVE Concat(_)
Concat(ps) == IF ps = <<>> THEN <<>> ELSE Head(ps) \o Concat(Tail(ps))

(* Up to MaxPieces core pieces, or any piece alone or beside a core piece. *)
PieceSeqs ==
    UNION { [1..n -> CorePieces] : n \in 0..MaxPieces }
    \cup { <<p>> : p \in Pieces }
    \cup { <<c, p>> : c \in CorePieces, p \in Pieces }
    \cup { <<p, c>> : c \in CorePieces, p \in Pieces }

Literals ==
    { <<34>> \o Concat(ps) \o (IF q THEN <<34>> ELSE <<>>) :
        q \in BOOLEAN, ps \in PieceSeqs }
    \cup { Concat(ps) : ps \in { <<p>> : p \in Pieces } \cup {<<>>} }

StaticItem == 1

NoOpts == [have_end |-> FALSE, require_nt |-> FALSE]

NoFlags == [dfree |-> FALSE, uaf |-> FALSE, oob |-> FALSE, nomem |-> FALSE,
            aborted |-> FALSE]

FlagsOf(c, ab) ==
    [dfree |-> c.dfree, uaf |-> c.uaf, oob |-> c.oob, nomem |-> c.nomem,
     aborted |-> ab]

InitString ==
    /\ text \in Literals
    /\ val = NoVal
    /\ phase = "ready"
    /\ heap = <<NewNode>>
    /\ root = NULL
    /\ ret = NULL
    /\ errp = NULL
    /\ maxRead = 0
    /\ flags = NoFlags
    /\ opts = NoOpts
    /\ out = NoText
    /\ held = {}
    /\ steps = 0
    /\ pb = NoBuffer

(* tests/parse_string.c: parse_string(item, string, &error_pointer, &hooks) *)
(* on the static, zeroed item.                                              *)
ParseStringCall ==
    /\ phase = "ready"
    /\ \E f \in {0, 1} :
       \E r0 \in {parse_string(Ctx(heap, f), Mem(text, 0), StaticItem, 1)} :
       \E g \in (IF r0.c.rd > NulAt(text) THEN Garbage ELSE {0}) :
       \E r \in {IF g = 0 THEN r0
                 ELSE parse_string(Ctx(heap, f), Mem(text, g), StaticItem, 1)} :
          /\ heap' = r.c.heap
          /\ ret' = r.r
          /\ errp' = r.c.ep
          /\ maxRead' = r.c.rd
          /\ flags' = FlagsOf(r.c, FALSE)
    /\ phase' = "parsed"
    /\ UNCHANGED <<text, val, root, opts, out>>
    /\ UNCHANGED <<held, steps, pb>>

NextString == ParseStringCall

SpecString == InitString /\ [][NextString]_vars

(***************************************************************************)
(* The reference reading of a string literal, written from the JSON        *)
(* grammar and not from parse_string: the units of the literal from the    *)
(* byte after the opening quote, the bytes they denote, and how the walk   *)
(* ends: "closed" (at the closing quote), "open" (at the end of the text), *)
(* "cut" (a backslash is the last byte), "escape" (a backslash before a    *)
(* byte that names no escape) or "unicode" (a bad \u escape); at is the    *)
(* index where the walk ended.                                             *)
(***************************************************************************)
RefHex(b) ==
    CASE b \in 48..57  -> b - 48
      [] b \in 65..70  -> b - 55
      [] b \in 97..102 -> b - 87
      [] OTHER -> 16

RefQuad(t, i) ==
    IF i + 3 > Len(t) THEN -1
    ELSE IF \E k \in 0..3 : RefHex(t[i + k]) = 16 THEN -1
    ELSE 4096 * RefHex(t[i]) + 256 * RefHex(t[i + 1]) + 16 * RefHex(t[i + 2])
         + RefHex(t[i + 3])

RefUtf8(cp) ==
    IF cp < 128 THEN <<cp>>
    ELSE IF cp < 2048 THEN <<192 + (cp \div 64), 128 + (cp % 64)>>
    ELSE IF cp < 65536
    THEN <<224 + (cp \div 4096), 128 + ((cp \div 64) % 64), 128 + (cp % 64)>>
    ELSE <<240 + (cp \div 262144), 128 + ((cp \div 4096) % 64),
           128 + ((cp \div 64) % 64), 128 + (cp % 64)>>

RefSimple(e) ==
    CASE e = 98 -> 8 [] e = 102 -> 12 [] e = 110 -> 10 [] e = 114 -> 13
      [] e = 116 -> 9 [] e = 34 -> 34 [] e = 92 -> 92 [] e = 47 -> 47
      [] OTHER -> 0

RECURSIVE RefWalk(_, _, _)
RefWalk(t, i, acc) ==
    LET end(k) == [kind |-> k, at |-> i, bytes |-> acc]
    IN  IF i > Len(t) THEN end("open")
        ELSE IF t[i] = 34 THEN end("closed")
        ELSE IF t[i] # 92 THEN RefWalk(t, i + 1, Append(acc, t[i]))
        ELSE IF i = Len(t) THEN end("cut")
        ELSE IF RefSimple(t[i + 1]) # 0
        THEN RefWalk(t, i + 2, Append(acc, RefSimple(t[i + 1])))
        ELSE IF t[i + 1] # 117 THEN end("escape")
        ELSE
        LET cu == RefQuad(t, i + 2)
        IN  IF cu <= 0 \/ (cu >= 56320 /\ cu <= 57343) THEN end("unicode")
            ELSE IF cu < 55296 \/ cu > 57343
            THEN RefWalk(t, i + 6, acc \o RefUtf8(cu))
            ELSE
            LET lo == IF i + 7 <= Len(t) /\ t[i + 6] = 92 /\ t[i + 7] = 117
                      THEN RefQuad(t, i + 8) ELSE -1
            IN  IF lo < 56320 \/ lo > 57343 THEN end("unicode")
                ELSE RefWalk(t, i + 12,
                             acc \o RefUtf8(65536 + (cu - 55296) * 1024
                                                  + (lo - 56320)))

IsLiteral(t) == Len(t) >= 1 /\ t[1] = 34

RefString(t) == RefWalk(t, 2, <<>>)

ItemString == heap[StaticItem].string

(* C3: a string literal that ends in a backslash cut off by the end of the *)
(* input (the escape it starts has no second byte) is rejected:            *)
(* parse_string returns null.                                              *)
C3_TrailingBackslashFails ==
    (phase = "parsed" /\ IsLiteral(text) /\ RefString(text).kind = "cut")
        => ret = NULL

C3_Witness ==
    /\ phase = "parsed"
    /\ IsLiteral(text)
    /\ RefString(text).kind = "cut"
    /\ Len(text) >= 3
    /\ ~flags.nomem

(* C6: a literal whose first fault is a backslash before a byte that names *)
(* no escape is rejected, and the error pointer is the index of that       *)
(* backslash.                                                              *)
C6_InvalidEscapeOffset ==
    (phase = "parsed" /\ IsLiteral(text) /\ RefString(text).kind = "escape"
        /\ ~flags.nomem)
        => (ret = NULL /\ errp = RefString(text).at)

(* C7: a literal whose first fault is a bad \u escape (a lone low          *)
(* surrogate, a high surrogate without its low half, 0000, or a digit that *)
(* is not hexadecimal) is rejected: parse_string returns null.             *)
C7_BadUnicodeEscapeRejected ==
    (phase = "parsed" /\ IsLiteral(text) /\ RefString(text).kind = "unicode")
        => ret = NULL

C7_Witness ==
    /\ phase = "parsed"
    /\ IsLiteral(text)
    /\ RefString(text).kind = "unicode"
    /\ RefString(text).at > 2
    /\ ~flags.nomem
    /\ ret = NULL

(* C8: whenever parse_string accepts a literal, the payload it stored in   *)
(* the item is the reference decoding of the literal, byte for byte.       *)
C8_DecodedPayload ==
    (phase = "parsed" /\ ret # NULL)
        => /\ ItemString # NULL
           /\ heap[ItemString].live
           /\ RefString(text).kind \in {"closed", "open"}
           /\ heap[ItemString].bytes = RefString(text).bytes

C8_Witness ==
    /\ phase = "parsed"
    /\ ret # NULL
    /\ RefString(text).kind = "closed"
    /\ Len(heap[ItemString].bytes) >= 5
    /\ \E i \in 1..Len(heap[ItemString].bytes) :
          heap[ItemString].bytes[i] = 240

(***************************************************************************)
(* Printing a String item and parsing the printed text again.  The item    *)
(* is what cJSON_CreateString leaves: a String node owning a copy of the   *)
(* payload.  A payload is a NUL-terminated string, so it holds no zero     *)
(* byte.                                                                   *)
(***************************************************************************)
MaxPayload == 2

PlainBytes == {34, 47, 92, 97, 127, 195}

ControlBytes == 1..31

(* Plain bytes, with one position holding any control byte. *)
Payloads ==
    LET plain == UNION { [1..n -> PlainBytes] : n \in 0..MaxPayload }
    IN  plain \cup UNION { { [s EXCEPT ![i] = b] :
                                 i \in 1..Len(s), b \in ControlBytes } :
                             s \in plain }

StringItem(s) ==
    << [NewNode EXCEPT !.type = "String", !.string = 2],
       [NewStr(Len(s) + 1) EXCEPT !.bytes = s] >>

ReparsedItem == Len(StringItem(<<>>)) + 1

InitEscape ==
    /\ \E s \in Payloads : heap = StringItem(s)
    /\ text = <<>>
    /\ val = NoVal
    /\ phase = "ready"
    /\ root = NULL
    /\ ret = NULL
    /\ errp = NULL
    /\ maxRead = 0
    /\ flags = NoFlags
    /\ opts = NoOpts
    /\ out = NoText
    /\ held = {}
    /\ steps = 0
    /\ pb = NoBuffer

(* print_string(item, 0, hooks): the text, or nothing when the hook fails. *)
PrintStringCall ==
    /\ phase = "ready"
    /\ \E ok \in BOOLEAN :
          /\ out' = IF ok THEN print_string(heap, StaticItem).bytes ELSE NoText
          /\ flags' = [flags EXCEPT !.nomem = ~ok]
    /\ phase' = "printed"
    /\ UNCHANGED <<text, val, heap, root, ret, errp, maxRead, opts>>
    /\ UNCHANGED <<held, steps, pb>>

(* parse_string on the printed text, into a second zeroed item. *)
ReparseStringCall ==
    /\ phase = "printed"
    /\ out # NoText
    /\ \E f \in {0, 1} :
       \E r0 \in {parse_string(Ctx(Append(heap, NewNode), f), Mem(out, 0),
                               ReparsedItem, 1)} :
       \E g \in (IF r0.c.rd > NulAt(out) THEN Garbage ELSE {0}) :
       \E r \in {IF g = 0 THEN r0
                 ELSE parse_string(Ctx(Append(heap, NewNode), f), Mem(out, g),
                                   ReparsedItem, 1)} :
          /\ heap' = r.c.heap
          /\ ret' = r.r
          /\ errp' = r.c.ep
          /\ maxRead' = r.c.rd
          /\ flags' = FlagsOf(r.c, FALSE)
    /\ text' = out
    /\ phase' = "reparsed"
    /\ UNCHANGED <<val, root, opts, out>>
    /\ UNCHANGED <<held, steps, pb>>

NextEscape == PrintStringCall \/ ReparseStringCall

SpecEscape == InitEscape /\ [][NextEscape]_vars

Payload == heap[heap[StaticItem].string].bytes

(* The escape sequence the printer is to emit for one payload byte. *)
RefEscape(b) ==
    CASE b = 8 -> <<92, 98>> [] b = 12 -> <<92, 102>> [] b = 10 -> <<92, 110>>
      [] b = 13 -> <<92, 114>> [] b = 9 -> <<92, 116>>
      [] b = 34 -> <<92, 34>> [] b = 92 -> <<92, 92>>
      [] OTHER -> IF b < 32
                  THEN <<92, 117, 48, 48, 48 + (b \div 16),
                         IF b % 16 < 10 THEN 48 + (b % 16) ELSE 87 + (b % 16)>>
                  ELSE <<b>>

RefEscapeAll(s) == Concat([i \in 1..Len(s) |-> RefEscape(s[i])])

(* C10: the printed text of a String item is a quoted text in which every  *)
(* byte below 0x20 of the payload stands as its escape sequence (\b \f \n  *)
(* \r \t, or \u00XX in lowercase hex), and parsing the printed text gives  *)
(* the payload back, byte for byte.                                        *)
C10_EscapeRoundTrip ==
    /\ (phase \in {"printed", "reparsed"} /\ out # NoText)
          => /\ out = <<34>> \o RefEscapeAll(Payload) \o <<34>>
             /\ \A i \in 1..Len(out) : out[i] >= 32
    /\ (phase = "reparsed" /\ ~flags.nomem)
          => /\ ret = Len(out) + 1
             /\ heap[ReparsedItem].type = "String"
             /\ heap[ReparsedItem].string # NULL
             /\ heap[heap[ReparsedItem].string].live
             /\ heap[heap[ReparsedItem].string].bytes = Payload

C10_Witness ==
    /\ phase = "reparsed"
    /\ ~flags.nomem
    /\ Len(Payload) = 2
    /\ Payload[1] = 31
    /\ Payload[2] = 92
    /\ heap[heap[ReparsedItem].string].bytes = Payload

(***************************************************************************)
(* internal_cJSON_Delete: the siblings in a loop, the children by          *)
(* recursion.  A node that was released already is read all the same       *)
(* (uaf) and released again (dfree).                                       *)
(***************************************************************************)
RECURSIVE internal_cJSON_Delete(_, _)
(* A delete that takes what a reference borrows for its own. *)
internal_cJSON_Delete_Borrowed(c, p) ==
    IF p = NULL THEN c
    ELSE
    LET n  == c.heap[p]
        c0 == IF n.live THEN c ELSE [c EXCEPT !.uaf = TRUE]
        c1 == IF n.child # NULL
              THEN internal_cJSON_Delete(c0, n.child) ELSE c0
        c2 == IF n.string # NULL THEN free_fn(c1, n.string) ELSE c1
        c3 == IF ~n.string_is_const /\ n.name # NULL
              THEN free_fn(c2, n.name) ELSE c2
    IN  internal_cJSON_Delete(free_fn(c3, p), n.next)

internal_cJSON_Delete(c, p) ==
    IF p = NULL THEN c
    ELSE
    LET n  == c.heap[p]
        c0 == IF n.live THEN c ELSE [c EXCEPT !.uaf = TRUE]
        c1 == IF ~n.is_reference /\ n.child # NULL
              THEN internal_cJSON_Delete(c0, n.child) ELSE c0
        c2 == IF ~n.is_reference /\ n.string # NULL
              THEN free_fn(c1, n.string) ELSE c1
        c3 == IF ~n.string_is_const /\ n.name # NULL
              THEN free_fn(c2, n.name) ELSE c2
    IN  internal_cJSON_Delete(free_fn(c3, p), n.next)

cJSON_Delete(c, p) == internal_cJSON_Delete(c, p)

(***************************************************************************)
(* skip: over the bytes 1..32.  A null pointer stays null.                 *)
(***************************************************************************)
RECURSIVE skip_from(_, _)
skip_from(m, in) ==
    IF Rd(m, in) # 0 /\ Rd(m, in) <= 32 THEN skip_from(m, in + 1) ELSE in

skip(m, in) == IF in = NULL THEN NULL ELSE skip_from(m, in)

(* skip reads every byte it passes and the one it stops at. *)
Skip(c, m, in) ==
    [c |-> IF in = NULL THEN c ELSE Touch(c, skip(m, in)), r |-> skip(m, in)]

(***************************************************************************)
(* strncmp(value, lit, n) with n = Len(lit): equal or not, and the last    *)
(* byte of the input it looked at.                                         *)
(***************************************************************************)
RECURSIVE strncmp_from(_, _, _, _)
strncmp_from(m, value, lit, i) ==
    IF i > Len(lit) THEN [eq |-> TRUE, rd |-> value + Len(lit) - 1]
    ELSE IF Rd(m, value + i - 1) # lit[i]
    THEN [eq |-> FALSE, rd |-> value + i - 1]
    ELSE strncmp_from(m, value, lit, i + 1)

strncmp(m, value, lit) == strncmp_from(m, value, lit, 1)

(***************************************************************************)
(* Doubles.  A finite double is [cls |-> "fin", neg, m, e] with the value  *)
(* (-1)^neg * m * 10^e, where m has no trailing zero digit and e = 0 when  *)
(* m = 0 (so -0 and +0 are two doubles); the others are the infinities and *)
(* NaN.  The doubles of this model are those a decimal of at most nine     *)
(* significant digits (ten up to INT_MAX) rounds to; two such decimals     *)
(* round to different doubles, so their order is the order of the doubles. *)
(***************************************************************************)
Fin(neg, m, e) == [cls |-> "fin", neg |-> neg, m |-> m, e |-> e]

Inf(neg) == [cls |-> "inf", neg |-> neg, m |-> 0, e |-> 0]

NaN(neg) == [cls |-> "nan", neg |-> neg, m |-> 0, e |-> 0]

RECURSIVE Norm(_, _, _)
Norm(neg, m, e) ==
    IF m = 0 THEN Fin(neg, 0, 0)
    ELSE IF m % 10 = 0 THEN Norm(neg, m \div 10, e + 1)
    ELSE Fin(neg, m, e)

(* The double of an integer. *)
Dbl(n) == Norm(n < 0, IF n < 0 THEN 0 - n ELSE n, 0)

RECURSIVE Pow10(_)
Pow10(k) == IF k <= 0 THEN 1 ELSE 10 * Pow10(k - 1)

RECURSIVE Digits(_)
Digits(n) == IF n < 10 THEN 1 ELSE 1 + Digits(n \div 10)

(* 10^(Order(d) - 1) <= |d| < 10^Order(d) *)
Order(d) == Digits(d.m) + d.e

(* The first nine digits of m and the tenth. *)
Lead(n) == IF Digits(n) > 9 THEN n \div 10 ELSE n * Pow10(9 - Digits(n))

Tenth(n) == IF Digits(n) > 9 THEN n % 10 ELSE 0

(* fabs(a) < fabs(b) for finite a and b *)
AbsLess(a, b) ==
    IF b.m = 0 THEN FALSE
    ELSE IF a.m = 0 THEN TRUE
    ELSE IF Order(a) # Order(b) THEN Order(a) < Order(b)
    ELSE \/ Lead(a.m) < Lead(b.m)
         \/ Lead(a.m) = Lead(b.m) /\ Tenth(a.m) < Tenth(b.m)

(* The result of a conversion: HUGE_VAL above the range of double, zero    *)
(* below it.  (The inputs keep away from the two edges, DBL_MAX and the    *)
(* smallest subnormal, by an order of magnitude.)                          *)
Ranged(d) ==
    IF d.m = 0 THEN d
    ELSE IF Order(d) > 309 THEN Inf(d.neg)
    ELSE IF Order(d) < 0 - 323 THEN Fin(d.neg, 0, 0)
    ELSE d

(***************************************************************************)
(* strtod in the C locale: white space, a sign, then inf, infinity or nan  *)
(* in any case, 0x and hexadecimal digits, or decimal digits with a        *)
(* fraction and an exponent.  A run of digits is kept as m * 10^z, n       *)
(* counting the digits.  (The inputs of this model put no '.' and no 'p'   *)
(* behind hexadecimal digits and no '(' behind nan.)  endpointer = num     *)
(* when nothing was converted; rd is the last index read.                  *)
(***************************************************************************)
IsDigit(b) == b >= 48 /\ b <= 57

NoDigits == [m |-> 0, z |-> 0, n |-> 0]

Push(a, k) ==
    [m |-> IF k = 0 THEN a.m ELSE a.m * Pow10(a.z + 1) + k,
     z |-> IF k = 0 /\ a.m # 0 THEN a.z + 1 ELSE 0,
     n |-> a.n + 1]

RECURSIVE strtod_digits(_, _, _)
strtod_digits(m, p, acc) ==
    IF IsDigit(Rd(m, p)) THEN strtod_digits(m, p + 1, Push(acc, Rd(m, p) - 48))
    ELSE [a |-> acc, end |-> p]

RECURSIVE strtod_hex(_, _, _)
strtod_hex(m, p, acc) ==
    IF HexDigit(Rd(m, p)) >= 0
    THEN strtod_hex(m, p + 1, 16 * acc + HexDigit(Rd(m, p)))
    ELSE [value |-> acc, end |-> p]

RECURSIVE strtod_space(_, _)
strtod_space(m, p) ==
    IF Rd(m, p) = 32 \/ (Rd(m, p) >= 9 /\ Rd(m, p) <= 13)
    THEN strtod_space(m, p + 1) ELSE p

Lower(b) == IF b >= 65 /\ b <= 90 THEN b + 32 ELSE b

(* The number of bytes from s on that agree with lit, letters in any case. *)
MatchLen(m, s, lit) ==
    Cardinality({k \in 1..Len(lit) :
                    \A i \in 1..k : Lower(Rd(m, s + i - 1)) = lit[i]})

(* The exponent part at q: e or E, a sign, digits; without a digit none of *)
(* it is taken.                                                            *)
strtod_exponent(m, q) ==
    LET d0 == IF Rd(m, q + 1) \in {43, 45} THEN q + 2 ELSE q + 1
        ds == strtod_digits(m, d0, NoDigits)
    IN  IF Rd(m, q) \notin {101, 69} THEN [exp |-> 0, end |-> q, rd |-> q]
        ELSE IF ds.a.n = 0 THEN [exp |-> 0, end |-> q, rd |-> d0]
        ELSE [exp |-> (IF Rd(m, q + 1) = 45 THEN 0 - 1 ELSE 1)
                        * ds.a.m * Pow10(ds.a.z),
              end |-> ds.end, rd |-> ds.end]

strtod_decimal(m, s, neg) ==
    LET ip  == strtod_digits(m, s, NoDigits)
        dot == Rd(m, ip.end) = 46
        fp  == IF dot
               THEN strtod_digits(m, ip.end + 1, [ip.a EXCEPT !.n = 0])
               ELSE [a |-> [ip.a EXCEPT !.n = 0], end |-> ip.end]
        ex  == strtod_exponent(m, fp.end)
    IN  IF ip.a.n + fp.a.n = 0
        THEN [ok |-> FALSE, value |-> Fin(FALSE, 0, 0), endpointer |-> s,
              rd |-> IF dot THEN ip.end + 1 ELSE ip.end]
        ELSE [ok |-> TRUE,
              value |-> Ranged(Norm(neg, fp.a.m, fp.a.z - fp.a.n + ex.exp)),
              endpointer |-> ex.end, rd |-> ex.rd]

strtod(m, num) ==
    LET sp  == strtod_space(m, num)
        neg == Rd(m, sp) = 45
        s   == IF Rd(m, sp) \in {43, 45} THEN sp + 1 ELSE sp
        inf == MatchLen(m, s, <<105, 110, 102, 105, 110, 105, 116, 121>>)
        nan == MatchLen(m, s, <<110, 97, 110>>)
        x   == Rd(m, s) = 48 /\ Lower(Rd(m, s + 1)) = 120
        hex == strtod_hex(m, s + 2, 0)
        dec == strtod_decimal(m, s, neg)
    IN  IF inf >= 3
        THEN [value |-> Inf(neg),
              endpointer |-> IF inf = 8 THEN s + 8 ELSE s + 3,
              rd |-> IF inf = 8 THEN s + 7 ELSE s + inf]
        ELSE IF nan = 3
        THEN [value |-> NaN(neg), endpointer |-> s + 3, rd |-> s + 3]
        ELSE IF x /\ HexDigit(Rd(m, s + 2)) >= 0
        THEN [value |-> Norm(neg, hex.value, 0), endpointer |-> hex.end,
              rd |-> hex.end]
        ELSE IF dec.ok
        THEN [value |-> dec.value, endpointer |-> dec.endpointer,
              rd |-> IF x THEN Max(dec.rd, s + 2) ELSE dec.rd]
        ELSE [value |-> Fin(FALSE, 0, 0), endpointer |-> num, rd |-> dec.rd]

parse_number(c, m, item, num) ==
    IF num = NULL THEN [c |-> c, r |-> NULL]
    ELSE LET sd == strtod(m, num)
         IN  IF num = sd.endpointer
             THEN [c |-> Touch(c, sd.rd), r |-> NULL]
             ELSE [c |-> [Touch(c, sd.rd) EXCEPT
                             !.heap[item].number = sd.value,
                             !.heap[item].type = "Number"],
                   r |-> sd.endpointer]

(***************************************************************************)
(* parse_value, parse_array and parse_object.  Each gives the context      *)
(* after the call and the returned pointer r (NULL: failure).              *)
(***************************************************************************)
RECURSIVE parse_value(_, _, _, _)
RECURSIVE parse_array(_, _, _, _)
RECURSIVE parse_object(_, _, _, _)
RECURSIVE array_elements(_, _, _, _)
RECURSIVE object_members(_, _, _, _)

S_null == <<110, 117, 108, 108>>

S_false == <<102, 97, 108, 115, 101>>

S_true == <<116, 114, 117, 101>>

SetType(c, item, t) == [c EXCEPT !.heap[item].type = t]

parse_value(c, m, item, value) ==
    IF value = NULL THEN [c |-> c, r |-> NULL]
    ELSE
    LET n  == strncmp(m, value, S_null)
        f  == strncmp(m, value, S_false)
        t  == strncmp(m, value, S_true)
        b  == Rd(m, value)
    IN  IF n.eq THEN [c |-> SetType(Touch(c, n.rd), item, "Null"),
                      r |-> value + 4]
        ELSE IF f.eq THEN [c |-> SetType(Touch(c, f.rd), item, "False"),
                           r |-> value + 5]
        ELSE IF t.eq THEN [c |-> SetType(Touch(c, t.rd), item, "True"),
                           r |-> value + 4]
        ELSE
        LET c1 == Touch(c, Max(n.rd, Max(f.rd, t.rd)))
        IN  IF b = 34 THEN parse_string(c1, m, item, value)
            ELSE IF b = 45 \/ (b >= 48 /\ b <= 57)
            THEN parse_number(c1, m, item, value)
            ELSE IF b = 91 THEN parse_array(c1, m, item, value)
            ELSE IF b = 123 THEN parse_object(c1, m, item, value)
            ELSE [c |-> [c1 EXCEPT !.ep = value], r |-> NULL]

(* After an element of an array: value = skip(parse_value(...)), then the  *)
(* loop of parse_array over ",value".  child is the last element so far;   *)
(* r is NULL when the loop left through fail.                              *)
RECURSIVE array_next(_, _, _)
array_elements(c, m, child, value) ==
    IF Rd(m, value) # 44 THEN [c |-> Touch(c, value), r |-> value]
    ELSE
    LET a == cJSON_New_Item(Touch(c, value))
    IN  IF a.p = NULL THEN [c |-> a.c, r |-> NULL]
        ELSE
        LET c1 == [a.c EXCEPT !.heap[child].next = a.p]
            s1 == Skip(c1, m, value + 1)
        IN  array_next(parse_value(s1.c, m, a.p, s1.r), m, a.p)

array_next(pv, m, child) ==
    LET s2 == Skip(pv.c, m, pv.r)
    IN  IF s2.r = NULL THEN [c |-> s2.c, r |-> NULL]
        ELSE array_elements(s2.c, m, child, s2.r)

array_fail(c, item) ==
    IF c.heap[item].child # NULL
    THEN [c |-> [cJSON_Delete(c, c.heap[item].child) EXCEPT
                    !.heap[item].child = NULL],
          r |-> NULL]
    ELSE [c |-> c, r |-> NULL]

(* The end of parse_array, lp being what its loop left. *)
array_close(lp, m, item) ==
    IF lp.r = NULL THEN array_fail(lp.c, item)
    ELSE IF Rd(m, lp.r) = 93 THEN [c |-> lp.c, r |-> lp.r + 1]
    ELSE array_fail([lp.c EXCEPT !.ep = lp.r], item)

parse_array(c, m, item, value) ==
    IF Rd(m, value) # 91
    THEN array_fail([Touch(c, value) EXCEPT !.ep = value], item)
    ELSE
    LET c1 == SetType(Touch(c, value), item, "Array")
        s1 == Skip(c1, m, value + 1)
    IN  IF Rd(m, s1.r) = 93 THEN [c |-> s1.c, r |-> s1.r + 1]
        ELSE
        LET a  == cJSON_New_Item(s1.c)
            c2 == [a.c EXCEPT !.heap[item].child = a.p]
        IN  IF a.p = NULL THEN array_fail(c2, item)
            ELSE
            LET s2 == Skip(c2, m, s1.r)
            IN  array_close(
                    array_next(parse_value(s2.c, m, a.p, s2.r), m, a.p),
                    m, item)

(* "use parsed string as key, not value" *)
string_to_name(c, child) ==
    [c EXCEPT !.heap[child].name = c.heap[child].string,
              !.heap[child].string = NULL]

(* value = skip(parse_value(child, skip(value + 1), ep, hooks)) *)
member_value(pv, m) == Skip(pv.c, m, pv.r)

(* A member of an object after its key, ps being what parse_string gave:   *)
(* the colon and the value.                                                *)
member_key(ps, m, child) ==
    LET s2 == Skip(ps.c, m, ps.r)
    IN  IF s2.r = NULL THEN [c |-> s2.c, r |-> NULL]
        ELSE
        LET c1 == Touch(string_to_name(s2.c, child), s2.r)
        IN  IF Rd(m, s2.r) # 58
            THEN [c |-> [c1 EXCEPT !.ep = s2.r], r |-> NULL]
            ELSE
            LET s3 == Skip(c1, m, s2.r + 1)
            IN  member_value(parse_value(s3.c, m, child, s3.r), m)

(* One member of an object into child, from the byte at value: the key,    *)
(* the colon, the value.  r is the byte after the member, NULL on failure. *)
object_member(c, m, child, value) ==
    LET s1 == Skip(c, m, value)
    IN  member_key(parse_string(s1.c, m, child, s1.r), m, child)

(* After a member of an object (mb is what object_member gave for child),  *)
(* the loop of parse_object over ",member".  The result's child is the     *)
(* local variable child of parse_object when the loop is left.             *)
RECURSIVE members_next(_, _, _)
object_members(c, m, child, value) ==
    IF Rd(m, value) # 44
    THEN [c |-> Touch(c, value), r |-> value, child |-> child]
    ELSE
    LET a == cJSON_New_Item(Touch(c, value))
    IN  IF a.p = NULL THEN [c |-> a.c, r |-> NULL, child |-> child]
        ELSE
        LET c1 == [a.c EXCEPT !.heap[child].next = a.p]
        IN  members_next(object_member(c1, m, a.p, value + 1), m, a.p)

members_next(mb, m, child) ==
    IF mb.r = NULL THEN [c |-> mb.c, r |-> NULL, child |-> child]
    ELSE object_members(mb.c, m, child, mb.r)

(* The fail label of parse_object: it deletes from child on. *)
object_fail(c, item, child) ==
    IF c.heap[item].child # NULL
    THEN [c |-> [cJSON_Delete(c, child) EXCEPT !.heap[item].child = NULL],
          r |-> NULL]
    ELSE [c |-> c, r |-> NULL]

(* The end of parse_object, lp being what its loop left. *)
object_close(lp, m, item) ==
    IF lp.r = NULL THEN object_fail(lp.c, item, lp.child)
    ELSE IF Rd(m, lp.r) = 125 THEN [c |-> lp.c, r |-> lp.r + 1]
    ELSE object_fail([lp.c EXCEPT !.ep = lp.r], item, lp.child)

parse_object(c, m, item, value) ==
    IF Rd(m, value) # 123
    THEN object_fail([Touch(c, value) EXCEPT !.ep = value], item, NULL)
    ELSE
    LET c1 == SetType(Touch(c, value), item, "Object")
        s1 == Skip(c1, m, value + 1)
    IN  IF Rd(m, s1.r) = 125 THEN [c |-> s1.c, r |-> s1.r + 1]
        ELSE
        LET a  == cJSON_New_Item(s1.c)
            c2 == [a.c EXCEPT !.heap[item].child = a.p]
        IN  IF a.p = NULL THEN object_fail(c2, item, NULL)
            ELSE object_close(
                     members_next(object_member(c2, m, a.p, s1.r), m, a.p),
                     m, item)

(***************************************************************************)
(* cJSON_ParseWithOpts(value, return_parse_end, require_null_terminated).  *)
(* ep is return_parse_end when the caller gives one and global_ep          *)
(* otherwise; c.ep is what it points to when the call returns.  parse_end  *)
(* is the call after parse_value has given pv for the root item c.         *)
(***************************************************************************)
parse_end(pv, m, item, have_end, require_null_terminated) ==
    IF pv.r = NULL
    THEN [c |-> internal_cJSON_Delete(pv.c, item), r |-> NULL]
    ELSE
    LET s1  == IF require_null_terminated THEN Skip(pv.c, m, pv.r)
               ELSE [c |-> pv.c, r |-> pv.r]
    IN  IF require_null_terminated /\ Rd(m, s1.r) # 0
        THEN [c |-> [internal_cJSON_Delete(s1.c, item) EXCEPT !.ep = s1.r],
              r |-> NULL]
        ELSE [c |-> IF have_end THEN [s1.c EXCEPT !.ep = s1.r] ELSE s1.c,
              r |-> item]

cJSON_ParseWithOpts(c, m, have_end, require_null_terminated) ==
    LET a  == cJSON_New_Item(c)
        c0 == [a.c EXCEPT !.ep = NULL]
    IN  IF a.p = NULL THEN [c |-> c0, r |-> NULL]
        ELSE
        LET s0 == Skip(c0, m, 1)
        IN  parse_end(parse_value(s0.c, m, a.p, s0.r), m, a.p, have_end,
                      require_null_terminated)

(***************************************************************************)
(* The standalone printer (p == NULL): every kind renders into a block of  *)
(* its own.  The result is the text without its NUL, or NoText where the   *)
(* code returns NULL.                                                      *)
(***************************************************************************)
INT_MAX == 2147483647

RECURSIVE DecDigits(_)
DecDigits(n) ==
    IF n < 10 THEN <<48 + n>> ELSE Append(DecDigits(n \div 10), 48 + (n % 10))

(* The digits without the sign. *)
sprintf_d_NoSign(n) == IF n < 0 THEN DecDigits(0 - n) ELSE DecDigits(n)

(* sprintf "%d" *)
sprintf_d(n) == IF n < 0 THEN <<45>> \o DecDigits(0 - n) ELSE DecDigits(n)

Sign(d) == IF d.neg THEN <<45>> ELSE <<>>

(* sprintf "%.0f" of a double with an integer value.  (The inputs that get *)
(* here are exactly m * 10^e as doubles, so these are their digits.)       *)
sprintf_f0(d) == Sign(d) \o DecDigits(d.m) \o [i \in 1..d.e |-> 48]

(* sprintf "%e": one digit, six decimals, an exponent of two digits or     *)
(* more.  (The inputs that get here have at most seven digits.)            *)
sprintf_e(d) ==
    Sign(d) \o <<DecDigits(d.m)[1], 46>>
      \o [i \in 1..6 |-> IF i + 1 <= Digits(d.m) THEN DecDigits(d.m)[i + 1]
                         ELSE 48]
      \o <<101, IF Order(d) < 1 THEN 45 ELSE 43>>
      \o (IF Order(d) > 0 - 9 /\ Order(d) < 11 THEN <<48>> ELSE <<>>)
      \o DecDigits(IF Order(d) < 1 THEN 1 - Order(d) ELSE Order(d) - 1)

(* sprintf "%f": six decimals.  (The inputs that get here have at most six *)
(* decimals.)                                                              *)
sprintf_f(d) ==
    IF d.e >= 0 THEN sprintf_f0(d) \o <<46, 48, 48, 48, 48, 48, 48>>
    ELSE Sign(d) \o DecDigits(d.m \div Pow10(0 - d.e)) \o <<46>>
           \o [i \in 1..6 |->
                 IF i > 0 - d.e THEN 48
                 ELSE 48 + ((d.m \div Pow10((0 - d.e) - i)) % 10)]

(* 2.220446049250313e-16, to the nine digits the doubles of the model are  *)
(* told apart by                                                           *)
DBL_EPSILON == Fin(FALSE, 222044604, 0 - 24)

(* fabs(floor(d) - d) <= DBL_EPSILON.  A double with an integer value is   *)
(* its own floor.  Of the others, with nine digits at most, a positive one *)
(* below 1 is floor(d) - d = -d away from its floor, and every other one   *)
(* at least 1e-9.  For NaN and the infinities the difference is NaN.       *)
NearInt(d) ==
    /\ d.cls = "fin"
    /\ \/ d.e >= 0
       \/ ~d.neg /\ ~AbsLess(DBL_EPSILON, d)

(* d <= INT_MAX && d >= INT_MIN.  (No double of the model lies between     *)
(* INT_MAX and -INT_MIN.)                                                  *)
InIntRange(d) == ~AbsLess(Fin(FALSE, INT_MAX, 0), d)

(* (int)d for a double in that range: the fraction is dropped *)
IntOf(d) ==
    IF Order(d) < 1 THEN 0
    ELSE IF d.e < 0
    THEN (IF d.neg THEN 0 - 1 ELSE 1) * (d.m \div Pow10(0 - d.e))
    ELSE (IF d.neg THEN 0 - 1 ELSE 1) * d.m * Pow10(d.e)

(* The text of a number and the size print_number asks for. *)
print_double(d) ==
    IF d.cls = "fin" /\ d.m = 0 THEN [need |-> 2, bytes |-> <<48>>]
    ELSE IF NearInt(d) /\ InIntRange(d)
    THEN [need |-> 21, bytes |-> sprintf_d(IntOf(d))]
    ELSE [need |-> 64,
          bytes |-> IF d.cls # "fin" THEN <<110, 117, 108, 108>>
                    ELSE IF NearInt(d) /\ AbsLess(d, Fin(FALSE, 1, 60))
                    THEN sprintf_f0(d)
                    ELSE IF \/ AbsLess(d, Fin(FALSE, 1, 0 - 6))
                            \/ AbsLess(Fin(FALSE, 1, 9), d)
                    THEN sprintf_e(d)
                    ELSE sprintf_f(d)]

print_number(h, item) == print_double(h[item].number).bytes

Tabs(n) == [i \in 1..n |-> 9]

RECURSIVE print_value(_, _, _, _)
RECURSIVE print_entries(_, _, _, _)
RECURSIVE print_members(_, _, _, _)

(* The entries of an array from child on, joined by the separator; NoText  *)
(* as soon as one of them fails to render.                                 *)
print_entries(h, child, depth, fmt) ==
    LET e == print_value(h, child, depth, fmt)
    IN  IF e = NoText THEN NoText
        ELSE IF h[child].next = NULL THEN e
        ELSE LET rest == print_entries(h, h[child].next, depth, fmt)
             IN  IF rest = NoText THEN NoText
                 ELSE e \o (IF fmt THEN <<44, 32>> ELSE <<44>>) \o rest

print_array(h, item, depth, fmt) ==
    IF h[item].child = NULL THEN <<91, 93>>
    ELSE LET es == print_entries(h, h[item].child, depth + 1, fmt)
         IN  IF es = NoText THEN NoText ELSE <<91>> \o es \o <<93>>

(* The members of an object from child on; depth is already incremented. *)
print_members(h, child, depth, fmt) ==
    LET e == print_value(h, child, depth, fmt)
        n == print_string_ptr(h, h[child].name).bytes
    IN  IF e = NoText THEN NoText
        ELSE
        LET one == (IF fmt THEN Tabs(depth) ELSE <<>>) \o n \o <<58>>
                   \o (IF fmt THEN <<9>> ELSE <<>>) \o e
                   \o (IF h[child].next # NULL THEN <<44>> ELSE <<>>)
                   \o (IF fmt THEN <<10>> ELSE <<>>)
        IN  IF h[child].next = NULL THEN one
            ELSE LET rest == print_members(h, h[child].next, depth, fmt)
                 IN  IF rest = NoText THEN NoText ELSE one \o rest

print_object(h, item, depth, fmt) ==
    IF h[item].child = NULL
    THEN <<123>> \o (IF fmt THEN <<10>> \o Tabs(depth) ELSE <<>>) \o <<125>>
    ELSE LET ms == print_members(h, h[item].child, depth + 1, fmt)
         IN  IF ms = NoText THEN NoText
             ELSE <<123>> \o (IF fmt THEN <<10>> ELSE <<>>) \o ms
                  \o (IF fmt THEN Tabs(depth) ELSE <<>>) \o <<125>>

print_value(h, item, depth, fmt) ==
    IF item = NULL THEN NoText
    ELSE CASE h[item].type = "Null"   -> S_null
           [] h[item].type = "False"  -> S_false
           [] h[item].type = "True"   -> S_true
           [] h[item].type = "Number" -> print_number(h, item)
           [] h[item].type = "Raw"    ->
                IF h[item].string = NULL THEN NoText
                ELSE h[h[item].string].bytes
           [] h[item].type = "String" -> print_string(h, item).bytes
           [] h[item].type = "Array"  -> print_array(h, item, depth, fmt)
           [] h[item].type = "Object" -> print_object(h, item, depth, fmt)
           [] OTHER -> NoText

cJSON_PrintUnformatted(h, item) == print_value(h, item, 0, FALSE)

cJSON_Print(h, item) == print_value(h, item, 0, TRUE)

(***************************************************************************)
(* JSON values and their texts, written from the JSON grammar.  A value is *)
(* null, a boolean, an integer, a string of code points, an array of       *)
(* values or an object of members.  RefRender gives a text of the value:   *)
(* esc writes every code point of a string as a \u escape (a surrogate     *)
(* pair above the BMP), otherwise only what must be escaped is; sp puts    *)
(* white space around the tokens.                                          *)
(***************************************************************************)
VNull == [k |-> "null"]

VBool(b) == [k |-> "bool", b |-> b]

VNum(n) == [k |-> "num", n |-> n]

VStr(s) == [k |-> "str", s |-> s]

VArr(es) == [k |-> "arr", es |-> es]

VObj(ms) == [k |-> "obj", ms |-> ms]

Member(key, v) == [key |-> key, val |-> v]

RefHexChar(d, upper) ==
    IF d < 10 THEN 48 + d ELSE IF upper THEN 55 + d ELSE 87 + d

RefU(cu, upper) ==
    <<92, 117, RefHexChar(cu \div 4096, upper),
      RefHexChar((cu \div 256) % 16, upper),
      RefHexChar((cu \div 16) % 16, upper), RefHexChar(cu % 16, upper)>>

RefCodePoint(cp, esc) ==
    IF esc
    THEN IF cp < 65536 THEN RefU(cp, TRUE)
         ELSE RefU(55296 + ((cp - 65536) \div 1024), TRUE)
              \o RefU(56320 + ((cp - 65536) % 1024), TRUE)
    ELSE IF cp < 32 \/ cp = 34 \/ cp = 92
         THEN IF cp = 0 THEN RefU(0, FALSE) ELSE RefEscape(cp)
         ELSE RefUtf8(cp)

RefStringText(s, esc) ==
    <<34>> \o Concat([i \in 1..Len(s) |-> RefCodePoint(s[i], esc)]) \o <<34>>

RECURSIVE RefDec(_)
RefDec(n) ==
    IF n < 0 THEN <<45>> \o RefDec(0 - n)
    ELSE IF n < 10 THEN <<48 + n>>
    ELSE RefDec(n \div 10) \o <<48 + (n % 10)>>

RECURSIVE RefRender(_, _, _)
RefRender(v, esc, sp) ==
    LET w == IF sp THEN <<32>> ELSE <<>>
        item(i) ==
            (IF i > 1 THEN <<44>> \o w ELSE <<>>)
            \o (IF v.k = "arr" THEN RefRender(v.es[i], esc, sp)
                ELSE RefStringText(v.ms[i].key, esc) \o w \o <<58>> \o w
                     \o RefRender(v.ms[i].val, esc, sp))
            \o w
    IN  CASE v.k = "null" -> S_null
          [] v.k = "bool" -> IF v.b THEN S_true ELSE S_false
          [] v.k = "num"  -> RefDec(v.n)
          [] v.k = "str"  -> RefStringText(v.s, esc)
          [] v.k = "arr"  ->
               <<91>> \o w \o Concat([i \in 1..Len(v.es) |-> item(i)]) \o <<93>>
          [] v.k = "obj"  ->
               <<123>> \o w \o Concat([i \in 1..Len(v.ms) |-> item(i)])
               \o <<125>>

(* The compact text the value has when only the bytes that must be escaped *)
(* are escaped. *)
RefCompact(v) == RefRender(v, FALSE, FALSE)

(* Whether a string of the value holds the code point 0. *)
RECURSIVE HasNulCodePoint(_)
HasNulCodePoint(v) ==
    CASE v.k = "str" -> \E i \in 1..Len(v.s) : v.s[i] = 0
      [] v.k = "arr" -> \E i \in 1..Len(v.es) : HasNulCodePoint(v.es[i])
      [] v.k = "obj" -> \E i \in 1..Len(v.ms) :
                           \/ \E j \in 1..Len(v.ms[i].key) : v.ms[i].key[j] = 0
                           \/ HasNulCodePoint(v.ms[i].val)
      [] OTHER -> FALSE

(***************************************************************************)
(* The inputs of the parser: the texts of a family of values, whole (with  *)
(* the value they denote) and damaged: cut short anywhere, or with one     *)
(* byte replaced by a backslash.                                           *)
(***************************************************************************)
MaxElems == 2

MaxCodePoints == 2

Elems == { VNull, VNum(0 - 12), VStr(<<97>>), VArr(<<VBool(TRUE)>>) }

ElemSeqs == UNION { [1..n -> Elems] : n \in 0..MaxElems }

Containers ==
    { VArr(es) : es \in ElemSeqs }
    \cup { VObj([i \in 1..Len(es) |-> Member(<<96 + i>>, es[i])]) :
             es \in ElemSeqs }

Nested ==
    { VBool(FALSE), VNum(0), VNum(7),
      VObj(<<Member(<<107>>, VObj(<<Member(<<>>, VNull), Member(<<98>>, VNum(1))>>)),
             Member(<<107>>, VArr(<<>>))>>),
      VArr(<<VObj(<<Member(<<97>>, VStr(<<>>)), Member(<<98>>, VStr(<<10>>))>>),
             VArr(<<VNum(1), VNum(2)>>)>>) }

CodePoints == {0, 10, 31, 34, 47, 92, 97, 233, 8364, 128049}

StringValues == { VStr(s) : s \in UNION { [1..n -> CodePoints] :
                                            n \in 0..MaxCodePoints } }

Escaped == { VStr(<<cp>>) : cp \in CodePoints } \cup { VStr(<<8364, 128049>>) }

Structured == Elems \cup Containers \cup Nested

Cut(t, n) == SubSeq(t, 1, n)

Damage(t, i) == [t EXCEPT ![i] = 92]

Input(t, v) == [text |-> t, val |-> v]

Inputs ==
    { Input(RefRender(v, FALSE, FALSE), v) : v \in Structured \cup StringValues }
    \cup { Input(RefRender(v, FALSE, TRUE), v) : v \in Structured }
    \cup { Input(<<10, 32>> \o RefRender(v, FALSE, TRUE) \o <<9, 13>>, v) :
             v \in Nested }
    \cup { Input(RefRender(v, TRUE, FALSE), v) : v \in StringValues \cup Nested }
    \cup UNION { { Input(Cut(RefCompact(v), n), NoVal) :
                     n \in 0..(Len(RefCompact(v)) - 1) } : v \in Structured }
    \cup UNION { { Input(Damage(RefCompact(v), i), NoVal) :
                     i \in 1..Len(RefCompact(v)) } : v \in Structured }
    \cup UNION { { Input(Cut(RefRender(v, TRUE, FALSE), n), NoVal) :
                     n \in 0..(Len(RefRender(v, TRUE, FALSE)) - 1) } :
                 v \in Escaped }

(***************************************************************************)
(* The calls.  cJSON_Parse(text) is cJSON_ParseWithOpts(text, 0, 0); the   *)
(* other three settings of the options are taken with a hook that never    *)
(* fails, and cJSON_Parse with a hook that fails at its n-th allocation    *)
(* for every n up to MaxFail.                                              *)
(***************************************************************************)
MaxFail == 6

ParseCalls ==
    { [failAt |-> f, have_end |-> FALSE, require_nt |-> FALSE] : f \in 0..MaxFail }
    \cup { [failAt |-> 0, have_end |-> e, require_nt |-> n] :
             e \in BOOLEAN, n \in BOOLEAN }

Init ==
    /\ \E i \in Inputs : text = i.text /\ val = i.val
    /\ phase = "ready"
    /\ heap = <<>>
    /\ root = NULL
    /\ ret = NULL
    /\ errp = NULL
    /\ maxRead = 0
    /\ flags = NoFlags
    /\ opts = NoOpts
    /\ out = NoText
    /\ held = {}
    /\ steps = 0
    /\ pb = NoBuffer

(* Releasing a block twice is undefined: the call then either comes back   *)
(* or the allocator aborts the process.                                    *)
Outcomes(c) == IF c.dfree THEN BOOLEAN ELSE {FALSE}

(* What an over-read finds is not the program's to decide: a call that     *)
(* read past the terminator is taken with every byte of Garbage there; a   *)
(* call that stayed inside the text does not depend on it.                 *)
ParseCall ==
    /\ phase = "ready"
    /\ \E o \in ParseCalls :
       \E r0 \in {cJSON_ParseWithOpts(Ctx(heap, o.failAt), Mem(text, 0),
                                      o.have_end, o.require_nt)} :
       \E g \in (IF r0.c.rd > NulAt(text) THEN Garbage ELSE {0}) :
       \E r \in {IF g = 0 THEN r0
                 ELSE cJSON_ParseWithOpts(Ctx(heap, o.failAt), Mem(text, g),
                                          o.have_end, o.require_nt)} :
       \E ab \in Outcomes(r.c) :
          /\ heap' = r.c.heap
          /\ root' = IF ab THEN NULL ELSE r.r
          /\ errp' = r.c.ep
          /\ maxRead' = r.c.rd
          /\ flags' = FlagsOf(r.c, ab)
          /\ opts' = [have_end |-> o.have_end, require_nt |-> o.require_nt]
    /\ phase' = "parsed"
    /\ UNCHANGED <<text, val, ret, out>>
    /\ UNCHANGED <<held, steps, pb>>

(* cJSON_PrintUnformatted(root); the hook may fail in it. *)
PrintCall ==
    /\ phase = "parsed"
    /\ root # NULL
    /\ \E ok \in BOOLEAN :
          /\ out' = IF ok THEN cJSON_PrintUnformatted(heap, root) ELSE NoText
          /\ flags' = [flags EXCEPT !.nomem = ~ok]
    /\ phase' = "printed"
    /\ UNCHANGED <<text, val, heap, root, ret, errp, maxRead, opts>>
    /\ UNCHANGED <<held, steps, pb>>

(* cJSON_Delete(root) *)
DeleteCall ==
    /\ phase \in {"parsed", "printed"}
    /\ root # NULL
    /\ LET c == cJSON_Delete([Ctx(heap, 0) EXCEPT !.dfree = flags.dfree,
                                                  !.uaf = flags.uaf], root)
       IN  /\ heap' = c.heap
           /\ flags' = [flags EXCEPT !.dfree = c.dfree, !.uaf = c.uaf]
    /\ root' = NULL
    /\ phase' = "deleted"
    /\ UNCHANGED <<text, val, ret, errp, maxRead, opts, out>>
    /\ UNCHANGED <<held, steps, pb>>

Next == ParseCall \/ PrintCall \/ DeleteCall

Spec == Init /\ [][Next]_vars

Leaked == { i \in 1..Len(heap) : heap[i].live }

Returned == phase = "parsed" /\ ~flags.aborted

(* C1: when the parse call returns null, for a syntax error or a failed    *)
(* allocation, no block the call allocated is still allocated.             *)
C1_NoLeakOnFailure == (Returned /\ root = NULL) => Leaked = {}

(* C2: a string literal with an opening quote and no closing quote before  *)
(* the NUL terminator is an error: the parse call returns null and leaves  *)
(* no String node.                                                         *)
C2_UnterminatedStringFails ==
    (Returned /\ IsLiteral(text) /\ RefString(text).kind = "open")
        => (root = NULL /\ \A i \in Leaked : heap[i].kind # "node")

(* C4: the parser reads no byte of the input beyond its NUL terminator.    *)
C4_NoOverRead == maxRead <= NulAt(text)

C4_Witness ==
    /\ phase = "parsed"
    /\ IsLiteral(text)
    /\ RefString(text).kind = "unicode"
    /\ RefString(text).at + 5 > Len(text)
    /\ maxRead = NulAt(text)

(* C5: when the parse call returns null on a malformed input (no           *)
(* allocation having failed), the error pointer it reports is not null and *)
(* points into the input: at a byte of the text or at its terminator.      *)
C5_ErrorOffsetInInput ==
    (Returned /\ val = NoVal /\ root = NULL /\ ~flags.nomem)
        => (errp # NULL /\ errp >= 1 /\ errp <= NulAt(text))

WellFormed == val # NoVal

MinifyStart(t, g) ==
    [b |-> t \o <<0>> \o [i \in 1..SlackLen |-> g], json |-> 1, into |-> 1,
     rd |-> 0, wr |-> 0, behind |-> FALSE]

At(s, i) == IF i >= 1 /\ i <= Len(s.b) THEN s.b[i] ELSE 0

(* json++, after reading json[0] (and json[1] when ahead is set). *)
minify_skip(s, ahead) ==
    [s EXCEPT !.rd = Max(@, IF ahead THEN s.json + 1 ELSE s.json),
              !.json = @ + 1]

(* *into++ = *json++ *)
minify_copy(s) ==
    [s EXCEPT !.b = IF s.into <= Len(@)
                    THEN [@ EXCEPT ![s.into] = At(s, s.json)] ELSE @,
              !.rd = Max(@, s.json), !.wr = Max(@, s.into),
              !.behind = @ \/ s.json < s.into,
              !.json = @ + 1, !.into = @ + 1]

(* The loop of a line comment: json++ until a NUL or a newline. *)
RECURSIVE minify_line(_)
minify_line(s) ==
    IF At(s, s.json) # 0 /\ At(s, s.json) # 10
    THEN minify_line(minify_skip(s, FALSE))
    ELSE [s EXCEPT !.rd = Max(@, s.json)]

(* The loop of a block comment: json++ until a NUL or a star followed by  *)
(* a slash, then json += 2.                                                *)
RECURSIVE minify_block(_)
minify_block(s) ==
    IF At(s, s.json) # 0 /\ ~(At(s, s.json) = 42 /\ At(s, s.json + 1) = 47)
    THEN minify_block(minify_skip(s, At(s, s.json) = 42))
    ELSE [s EXCEPT !.rd = Max(@, IF At(s, s.json) = 42 THEN s.json + 1
                                 ELSE s.json),
                   !.json = @ + 2]

(* The loop over the bytes of a string literal, then its last byte. *)
RECURSIVE minify_literal(_)
minify_literal(s) ==
    IF At(s, s.json) # 0 /\ At(s, s.json) # 34
    THEN IF At(s, s.json) = 92
         THEN minify_literal(minify_copy(minify_copy(s)))
         ELSE minify_literal(minify_copy(s))
    ELSE minify_copy(s)

RECURSIVE minify_loop(_)
minify_loop(s) ==
    IF At(s, s.json) = 0
    THEN [s EXCEPT !.b = IF s.into <= Len(@)
                         THEN [@ EXCEPT ![s.into] = 0] ELSE @,
                   !.rd = Max(@, s.json), !.wr = Max(@, s.into),
                   !.behind = @ \/ s.json < s.into]
    ELSE IF At(s, s.json) \in {32, 9, 13, 10}
    THEN minify_loop(minify_skip(s, FALSE))
    ELSE IF At(s, s.json) = 47 /\ At(s, s.json + 1) = 47
    THEN minify_loop(minify_line([s EXCEPT !.rd = Max(@, s.json + 1)]))
    ELSE IF At(s, s.json) = 47 /\ At(s, s.json + 1) = 42
    THEN minify_loop(minify_block([s EXCEPT !.rd = Max(@, s.json + 1)]))
    ELSE IF At(s, s.json) = 34
    THEN minify_loop(minify_literal(minify_copy(s)))
    ELSE minify_loop(minify_copy(
             [s EXCEPT !.rd = Max(@, IF At(s, s.json) = 47
                                     THEN s.json + 1 ELSE s.json)]))

cJSON_Minify(t, g) == minify_loop(MinifyStart(t, g))

(* The string the caller finds in the buffer: the bytes before its first   *)
(* zero.                                                                   *)
RECURSIVE CString(_, _)
CString(b, i) ==
    IF i > Len(b) \/ b[i] = 0 THEN SubSeq(b, 1, i - 1) ELSE CString(b, i + 1)

(***************************************************************************)
(* The inputs of cJSON_Minify: every string of at most MaxMinify bytes of  *)
(* MinifyBytes (newline, quote, star, slash, backslash, a letter), and the *)
(* samples: the scenario of the documentation, the other white space, and  *)
(* comments next to each other.                                            *)
(***************************************************************************)
MaxMinify == 5

MinifyBytes == {10, 34, 42, 47, 92, 97}

MinifySamples ==
    { <<123, 32, 34, 97, 34, 32, 58, 32, 49, 44, 32, 47, 47, 32, 99, 10,
        32, 47, 42, 32, 120, 32, 42, 47, 32, 34, 98, 34, 58, 34, 120, 32,
        47, 47, 32, 121, 34, 32, 125>>,
      <<47, 32, 47>>, <<47, 9, 42, 13, 47>>, <<9, 49, 13, 10, 50, 32>>,
      <<47, 42, 47, 32, 49, 32, 42, 47>>,
      <<34, 32, 92, 34, 32, 47, 47, 34, 32, 47, 47, 34, 10, 49>>,
      <<47, 42, 34, 42, 47, 34, 47, 42, 34>> }

MinifyInputs ==
    UNION { [1..n -> MinifyBytes] : n \in 0..MaxMinify } \cup MinifySamples

InitMinify ==
    /\ text \in MinifyInputs
    /\ val = NoVal
    /\ phase = "ready"
    /\ heap = <<>>
    /\ root = NULL
    /\ ret = NULL
    /\ errp = NULL
    /\ maxRead = 0
    /\ flags = NoFlags
    /\ opts = NoOpts
    /\ out = NoText
    /\ held = {}
    /\ steps = 0
    /\ pb = NoBuffer

(* What the call leaves: out is the string in the buffer, maxRead the      *)
(* highest index read, ret the highest index written, and flags.oob tells  *)
(* that one of them lies beyond the terminator of the input; opts holds    *)
(* the two cursors at the end and whether json was ever behind into when a *)
(* byte was written.                                                       *)
MinifyEffect(t, s) ==
    /\ out' = CString(s.b, 1)
    /\ opts' = [json |-> s.json, into |-> s.into, behind |-> s.behind]
    /\ maxRead' = s.rd
    /\ ret' = s.wr
    /\ flags' = [flags EXCEPT !.oob = @ \/ s.rd > NulAt(t) \/ s.wr > NulAt(t)]

(* cJSON_Minify(text) *)
MinifyCall ==
    /\ phase = "ready"
    /\ \E s0 \in {cJSON_Minify(text, 0)} :
       \E g \in (IF s0.rd > NulAt(text) THEN Garbage ELSE {0}) :
       \E s \in {IF g = 0 THEN s0 ELSE cJSON_Minify(text, g)} :
          MinifyEffect(text, s)
    /\ phase' = "minified"
    /\ UNCHANGED <<text, val, heap, root, errp>>
    /\ UNCHANGED <<held, steps, pb>>

(* cJSON_Minify again, on the string the first call left. *)
MinifyAgainCall ==
    /\ phase = "minified"
    /\ \E s0 \in {cJSON_Minify(out, 0)} :
       \E g \in (IF s0.rd > NulAt(out) THEN Garbage ELSE {0}) :
       \E s \in {IF g = 0 THEN s0 ELSE cJSON_Minify(out, g)} :
          MinifyEffect(out, s)
    /\ text' = out
    /\ phase' = "reminified"
    /\ UNCHANGED <<val, heap, root, errp>>
    /\ UNCHANGED <<held, steps, pb>>

NextMinify == MinifyCall \/ MinifyAgainCall

SpecMinify == InitMinify /\ [][NextMinify]_vars

(***************************************************************************)
(* The reference result of minify, read off its description: white space  *)
(* outside literals goes, a line comment goes up to the next newline, a    *)
(* block comment goes from its opener to the first closer after the        *)
(* opener, a literal stays as it is (a backslash and the byte after it are *)
(* one unit), every other byte stays.  kind is "open" when a literal or a  *)
(* block comment has no end.                                               *)
(***************************************************************************)
RECURSIVE RefLineEnd(_, _)
RefLineEnd(t, i) ==
    IF i > Len(t) \/ t[i] = 10 THEN i ELSE RefLineEnd(t, i + 1)

(* The index after the first closer at or after i; 0 when there is none. *)
RECURSIVE RefBlockEnd(_, _)
RefBlockEnd(t, i) ==
    IF i + 1 > Len(t) THEN 0
    ELSE IF t[i] = 42 /\ t[i + 1] = 47 THEN i + 2
    ELSE RefBlockEnd(t, i + 1)

(* The index after the closing quote of the literal whose bytes start at   *)
(* i; 0 when there is none.                                                *)
RECURSIVE RefLiteralEnd(_, _)
RefLiteralEnd(t, i) ==
    IF i > Len(t) THEN 0
    ELSE IF t[i] = 34 THEN i + 1
    ELSE IF t[i] = 92 THEN RefLiteralEnd(t, i + 2)
    ELSE RefLiteralEnd(t, i + 1)

RECURSIVE RefMinifyFrom(_, _, _)
RefMinifyFrom(t, i, acc) ==
    IF i > Len(t) THEN [kind |-> "ok", out |-> acc]
    ELSE IF t[i] \in {32, 9, 13, 10} THEN RefMinifyFrom(t, i + 1, acc)
    ELSE IF t[i] = 47 /\ i < Len(t) /\ t[i + 1] = 47
    THEN RefMinifyFrom(t, RefLineEnd(t, i + 2), acc)
    ELSE IF t[i] = 47 /\ i < Len(t) /\ t[i + 1] = 42
    THEN IF RefBlockEnd(t, i + 2) = 0 THEN [kind |-> "open", out |-> acc]
         ELSE RefMinifyFrom(t, RefBlockEnd(t, i + 2), acc)
    ELSE IF t[i] = 34
    THEN IF RefLiteralEnd(t, i + 1) = 0 THEN [kind |-> "open", out |-> acc]
         ELSE RefMinifyFrom(t, RefLiteralEnd(t, i + 1),
                            acc \o SubSeq(t, i, RefLiteralEnd(t, i + 1) - 1))
    ELSE RefMinifyFrom(t, i + 1, Append(acc, t[i]))

RefMinify(t) == RefMinifyFrom(t, 1, <<>>)

(* C11: minify is idempotent: for every NUL-terminated byte string, the    *)
(* second call leaves the string the first call left.                      *)
C11_MinifyIdempotent == phase = "reminified" => out = text

(* C11, for the inputs on which neither call leaves the bytes of its       *)
(* input: the second call still changes the string.                        *)
C11_MinifyIdempotentInBounds ==
    (phase = "reminified" /\ ~flags.oob) => out = text

(* C12: for every input whose literals and block comments are terminated,  *)
(* the string minify leaves is the reference result.                       *)
C12_MinifyReference ==
    (phase = "minified" /\ RefMinify(text).kind = "ok")
        => out = RefMinify(text).out

(***************************************************************************)
(* The operations on trees.  A name or a payload is a block of the heap    *)
(* and a pointer to it is its block number.  A key the caller owns (what   *)
(* it passes to cJSON_AddItemToObjectCS) is a block of kind "const": the   *)
(* hooks did not allocate it, and free_fn on it shows as live = FALSE.     *)
(* A read through a null pointer is reported in the context as oob.        *)
(***************************************************************************)
ConstStr(s) == [kind |-> "const", live |-> TRUE, cap |-> Len(s) + 1, bytes |-> s]

(* The chain of nodes from p along next, cut after n nodes. *)
RECURSIVE Chain(_, _, _)
Chain(h, p, n) ==
    IF p = NULL \/ n = 0 THEN <<>> ELSE <<p>> \o Chain(h, h[p].next, n - 1)

Children(h, p) == Chain(h, h[p].child, Len(h))

cJSON_strdup(c, str) ==
    IF str = NULL THEN [c |-> c, p |-> NULL]
    ELSE malloc_fn(c, [NewStr(Len(c.heap[str].bytes) + 1) EXCEPT
                          !.bytes = c.heap[str].bytes])

(* cJSON_strdup of a string of the caller, given by its bytes. *)
strdup_bytes(c, s) == malloc_fn(c, [NewStr(Len(s) + 1) EXCEPT !.bytes = s])

(* strcmp(c->name, name) # 0, name being the bytes of a string of the      *)
(* caller.                                                                 *)
name_differs(h, p, name) ==
    IF h[p].name = NULL THEN TRUE ELSE h[h[p].name].bytes # name

suffix_object(c, prev, item) == [c EXCEPT !.heap[prev].next = item]

create_reference(c, item) ==
    LET a == cJSON_New_Item(c)
    IN  IF a.p = NULL THEN [c |-> a.c, p |-> NULL]
        ELSE [c |-> [a.c EXCEPT !.heap[a.p] =
                        [c.heap[item] EXCEPT !.name = NULL,
                                             !.is_reference = TRUE,
                                             !.next = NULL, !.live = TRUE]],
              p |-> a.p]

(* while (child->next) child = child->next; *)
RECURSIVE last_child(_, _, _)
last_child(h, child, n) ==
    IF h[child].next = NULL \/ n = 0 THEN child
    ELSE last_child(h, h[child].next, n - 1)

cJSON_AddItemToArray(c, array, item) ==
    IF item = NULL \/ array = NULL THEN c
    ELSE IF c.heap[array].child = NULL
    THEN [c EXCEPT !.heap[array].child = item]
    ELSE suffix_object(c, last_child(c.heap, c.heap[array].child,
                                     Len(c.heap)), item)

(* item->name = cJSON_strdup(name, hooks) *)
set_name(d, item) == [d.c EXCEPT !.heap[item].name = d.p]

cJSON_AddItemToObject(c, object, name, item) ==
    IF item = NULL THEN c
    ELSE cJSON_AddItemToArray(
             set_name(strdup_bytes(IF c.heap[item].name # NULL
                                   THEN free_fn(c, c.heap[item].name)
                                   ELSE c, name), item),
             object, item)

(* name is the caller's key, a block of kind "const". *)
cJSON_AddItemToObjectCS(c, object, name, item) ==
    IF item = NULL THEN c
    ELSE cJSON_AddItemToArray(
             [(IF ~c.heap[item].string_is_const /\ c.heap[item].name # NULL
               THEN free_fn(c, c.heap[item].name) ELSE c)
                 EXCEPT !.heap[item].name = name,
                        !.heap[item].string_is_const = TRUE],
             object, item)

(* cJSON_AddItemToArray(array, create_reference(item, &global_hooks)) *)
add_reference(r, array) == cJSON_AddItemToArray(r.c, array, r.p)

cJSON_AddItemReferenceToArray(c, array, item) ==
    add_reference(create_reference(c, item), array)

(* cJSON_AddItemToObject(object, name, create_reference(item, ...)) *)
add_named_reference(r, object, name) ==
    cJSON_AddItemToObject(r.c, object, name, r.p)

cJSON_AddItemReferenceToObject(c, object, name, item) ==
    add_named_reference(create_reference(c, item), object, name)

(* while (c && (which > 0)) { previous = c; c = c->next; which--; } *)
RECURSIVE array_walk(_, _, _, _)
array_walk(h, cur, previous, which) ==
    IF cur # NULL /\ which > 0
    THEN array_walk(h, h[cur].next, cur, which - 1)
    ELSE [c |-> cur, previous |-> previous]

(* A detach that leaves the detached item its next. *)
unlink_item_KeepNext(c, array, w) ==
    IF w.c = NULL THEN [c |-> c, r |-> NULL]
    ELSE [c |-> [c EXCEPT
                   !.heap = IF w.c = c.heap[array].child
                            THEN [c.heap EXCEPT
                                    ![array].child = c.heap[w.c].next]
                            ELSE [c.heap EXCEPT
                                    ![w.previous].next = c.heap[w.c].next]],
          r |-> w.c]

(* The item at w.c leaves the list of array; w is what the walk found. *)
unlink_item(c, array, w) ==
    IF w.c = NULL THEN [c |-> c, r |-> NULL]
    ELSE [c |-> [c EXCEPT
                   !.heap = [(IF w.c = c.heap[array].child
                              THEN [c.heap EXCEPT
                                      ![array].child = c.heap[w.c].next]
                              ELSE [c.heap EXCEPT
                                      ![w.previous].next = c.heap[w.c].next])
                               EXCEPT ![w.c].next = NULL]],
          r |-> w.c]

cJSON_DetachItemFromArray(c, array, which) ==
    unlink_item(c, array, array_walk(c.heap, c.heap[array].child, NULL, which))

(* while (c && strcmp(c->name, name)) { i++; c = c->next; }               *)
(* bad tells that strcmp was given a null name.                            *)
RECURSIVE name_walk(_, _, _, _)
name_walk(h, cur, name, i) ==
    IF cur = NULL THEN [c |-> NULL, i |-> i, bad |-> FALSE]
    ELSE IF h[cur].name = NULL THEN [c |-> cur, i |-> i, bad |-> TRUE]
    ELSE IF name_differs(h, cur, name)
    THEN name_walk(h, h[cur].next, name, i + 1)
    ELSE [c |-> cur, i |-> i, bad |-> FALSE]

detach_found(c, object, w) ==
    IF w.bad THEN [c |-> [c EXCEPT !.oob = TRUE], r |-> NULL]
    ELSE IF w.c # NULL THEN cJSON_DetachItemFromArray(c, object, w.i)
    ELSE [c |-> c, r |-> NULL]

cJSON_DetachItemFromObject(c, object, name) ==
    detach_found(c, object, name_walk(c.heap, c.heap[object].child, name, 0))

(* internal_cJSON_Delete(cJSON_DetachItemFromArray(array, which), hooks) *)
delete_detached(d) ==
    IF d.r = NULL THEN d.c ELSE internal_cJSON_Delete(d.c, d.r)

cJSON_DeleteItemFromArray(c, array, which) ==
    delete_detached(cJSON_DetachItemFromArray(c, array, which))

cJSON_DeleteItemFromObject(c, object, name) ==
    delete_detached(cJSON_DetachItemFromObject(c, object, name))

(* An insert that puts newitem behind the item at w.c. *)
link_before_Behind(c, array, w, newitem) ==
    IF w.c = NULL THEN cJSON_AddItemToArray(c, array, newitem)
    ELSE [c EXCEPT !.heap[newitem].next = c.heap[w.c].next,
                   !.heap[w.c].next = newitem]

(* newitem goes before the item at w.c; w is what the walk found. *)
link_before(c, array, w, newitem) ==
    IF w.c = NULL THEN cJSON_AddItemToArray(c, array, newitem)
    ELSE IF w.c = c.heap[array].child
    THEN [c EXCEPT !.heap[newitem].next = w.c, !.heap[array].child = newitem]
    ELSE [c EXCEPT !.heap[newitem].next = w.c,
                   !.heap[w.previous].next = newitem]

cJSON_InsertItemInArray(c, array, which, newitem) ==
    link_before(c, array,
                array_walk(c.heap, c.heap[array].child, NULL, which), newitem)

(* newitem takes the place of the item at w.c, which is deleted. *)
link_instead(c, array, w, newitem) ==
    IF w.c = NULL THEN c
    ELSE internal_cJSON_Delete(
             [c EXCEPT
                !.heap = [(IF w.c = c.heap[array].child
                           THEN [c.heap EXCEPT
                                   ![newitem].next = c.heap[w.c].next,
                                   ![array].child = newitem]
                           ELSE [c.heap EXCEPT
                                   ![newitem].next = c.heap[w.c].next,
                                   ![w.previous].next = newitem])
                            EXCEPT ![w.c].next = NULL]],
             w.c)

internal_cJSON_ReplaceItemInArray(c, array, which, newitem) ==
    link_instead(c, array,
                 array_walk(c.heap, c.heap[array].child, NULL, which), newitem)

replace_found(c, object, name, w, newitem) ==
    IF w.bad THEN [c EXCEPT !.oob = TRUE]
    ELSE IF w.c = NULL THEN c
    ELSE internal_cJSON_ReplaceItemInArray(
             set_name(strdup_bytes(IF ~c.heap[newitem].string_is_const
                                      /\ c.heap[newitem].name # NULL
                                   THEN free_fn(c, c.heap[newitem].name)
                                   ELSE c, name), newitem),
             object, w.i, newitem)

internal_cJSON_ReplaceItemInObject(c, object, name, newitem) ==
    replace_found(c, object, name,
                  name_walk(c.heap, c.heap[object].child, name, 0), newitem)

(***************************************************************************)
(* internal_cJSON_Duplicate(item, recurse, hooks).  p is the copy, NULL    *)
(* after the fail label, which deletes what was copied so far.             *)
(***************************************************************************)
RECURSIVE internal_cJSON_Duplicate(_, _, _)
RECURSIVE dup_children(_, _, _, _)

dup_fail(c, newitem) ==
    [c |-> IF newitem # NULL THEN cJSON_Delete(c, newitem) ELSE c, p |-> NULL]

(* newchild, the copy d.p of child, goes to the end of newitem's list. *)
dup_link(d, child, newitem, next) ==
    IF d.p = NULL THEN dup_fail(d.c, newitem)
    ELSE dup_children(IF next # NULL
                      THEN [d.c EXCEPT !.heap[next].next = d.p]
                      ELSE [d.c EXCEPT !.heap[newitem].child = d.p],
                      d.c.heap[child].next, newitem, d.p)

dup_children(c, child, newitem, next) ==
    IF child = NULL THEN [c |-> c, p |-> newitem]
    ELSE dup_link(internal_cJSON_Duplicate(c, child, TRUE), child, newitem,
                  next)

(* After the name: d.p is the name of the copy. *)
dup_name(d, item, newitem, recurse) ==
    IF d.c.heap[item].name # NULL /\ d.p = NULL THEN dup_fail(d.c, newitem)
    ELSE IF ~recurse
    THEN [c |-> [d.c EXCEPT !.heap[newitem].name = d.p], p |-> newitem]
    ELSE dup_children([d.c EXCEPT !.heap[newitem].name = d.p],
                      d.c.heap[item].child, newitem, NULL)

(* After the payload: d.p is the payload of the copy. *)
dup_string(d, item, newitem, recurse) ==
    IF d.c.heap[item].string # NULL /\ d.p = NULL
    THEN dup_fail(d.c, newitem)
    ELSE dup_name(
             IF d.c.heap[item].name = NULL
             THEN [c |-> [d.c EXCEPT !.heap[newitem].string = d.p],
                   p |-> NULL]
             ELSE IF d.c.heap[item].string_is_const
             THEN [c |-> [d.c EXCEPT !.heap[newitem].string = d.p],
                   p |-> d.c.heap[item].name]
             ELSE cJSON_strdup([d.c EXCEPT !.heap[newitem].string = d.p],
                               d.c.heap[item].name),
             item, newitem, recurse)

(* "Copy over all vars", a.p being the new item. *)
dup_item(a, item, recurse) ==
    IF a.p = NULL THEN [c |-> a.c, p |-> NULL]
    ELSE dup_string(
             cJSON_strdup([a.c EXCEPT
                              !.heap[a.p].type = a.c.heap[item].type,
                              !.heap[a.p].is_reference = FALSE,
                              !.heap[a.p].number = a.c.heap[item].number,
                              !.heap[a.p].string_is_const = FALSE],
                          a.c.heap[item].string),
             item, a.p, recurse)

internal_cJSON_Duplicate(c, item, recurse) ==
    IF item = NULL THEN [c |-> c, p |-> NULL]
    ELSE dup_item(cJSON_New_Item(c), item, recurse)

cJSON_Duplicate(c, item, recurse) == internal_cJSON_Duplicate(c, item, recurse)

(***************************************************************************)
(* The constructors: cJSON_CreateNull, cJSON_CreateArray and               *)
(* cJSON_CreateObject set the type of a new item, cJSON_CreateString also  *)
(* copies the string and deletes the item when the copy fails.             *)
(***************************************************************************)
create_typed(a, t) ==
    IF a.p = NULL THEN [c |-> a.c, p |-> NULL]
    ELSE [c |-> SetType(a.c, a.p, t), p |-> a.p]

cJSON_CreateNull(c) == create_typed(cJSON_New_Item(c), "Null")

cJSON_CreateArray(c) == create_typed(cJSON_New_Item(c), "Array")

cJSON_CreateObject(c) == create_typed(cJSON_New_Item(c), "Object")

create_payload(d, item) ==
    IF d.p = NULL THEN [c |-> internal_cJSON_Delete(d.c, item), p |-> NULL]
    ELSE [c |-> [d.c EXCEPT !.heap[item].string = d.p], p |-> item]

create_string(a, s) ==
    IF a.p = NULL THEN [c |-> a.c, p |-> NULL]
    ELSE create_payload(strdup_bytes(SetType(a.c, a.p, "String"), s), a.p)

cJSON_CreateString(c, s) == create_string(cJSON_New_Item(c), s)

(***************************************************************************)
(* The caller of the tree operations.  It starts with a tree the API       *)
(* built: the parse of SetupText, then a member added under a key of its   *)
(* own (cJSON_AddItemToObjectCS), and a new array that is in no list yet.  *)
(* held is the set of items it holds that are in no child list: the roots  *)
(* of its trees.  It hands the library items of its trees only, never a    *)
(* tree with a released node in it, never an item to a container inside    *)
(* that shares a node with the item, and it changes a list through the     *)
(* node that owns it, not through a reference to it.  opts records the     *)
(* last call and the children the container had before it.                 *)
(***************************************************************************)
MaxSteps == 2

MaxWhich == 3

MaxFailTree == 2

Names == { <<97>>, <<107>>, <<122>> }

(* {"a":[1,2],"b":"s"} *)
SetupText ==
    <<123, 34, 97, 34, 58, 91, 49, 44, 50, 93, 44, 34, 98, 34, 58, 34, 115,
      34, 125>>

ConstKeys(h) == { i \in 1..Len(h) : h[i].kind = "const" }

setup_loose(c, r) ==
    LET x == cJSON_CreateArray(c)
    IN  [heap |-> x.c.heap, held |-> {r, x.p}]

setup_const(pr) ==
    LET n == cJSON_CreateNull(pr.c)
    IN  setup_loose(cJSON_AddItemToObjectCS(n.c, pr.r,
                        CHOOSE k \in ConstKeys(pr.c.heap) : TRUE, n.p), pr.r)

Setup ==
    setup_const(cJSON_ParseWithOpts(Ctx(<<ConstStr(<<107>>)>>, 0),
                                    Mem(SetupText, 0), FALSE, FALSE))

(* The nodes of the chain from p and below them, references followed. *)
RECURSIVE Tree(_, _, _)
Tree(h, p, n) ==
    IF p = NULL \/ n = 0 THEN {}
    ELSE {p} \cup Tree(h, h[p].child, n - 1) \cup Tree(h, h[p].next, n - 1)

TreeOf(h, p) == {p} \cup Tree(h, h[p].child, Len(h))

(* The same without what reference nodes borrow: what a delete releases. *)
RECURSIVE OwnedTree(_, _, _)
OwnedTree(h, p, n) ==
    IF p = NULL \/ n = 0 THEN {}
    ELSE {p} \cup (IF h[p].is_reference THEN {}
                   ELSE OwnedTree(h, h[p].child, n - 1))
             \cup OwnedTree(h, h[p].next, n - 1)

OwnedOf(h, p) ==
    {p} \cup (IF h[p].is_reference THEN {}
              ELSE OwnedTree(h, h[p].child, Len(h)))

Usable(h, p) == \A q \in TreeOf(h, p) : h[q].live

Roots == { r \in held : Usable(heap, r) }

Nodes == UNION { TreeOf(heap, r) : r \in Roots }

Arrays == { p \in Nodes : heap[p].type = "Array" /\ ~heap[p].is_reference }

Objects == { p \in Nodes : heap[p].type = "Object" /\ ~heap[p].is_reference }

(* The caller hands container p an item that shares no node with it. *)
Apart(p, i) == TreeOf(heap, i) \cap TreeOf(heap, p) = {}

Fresh(p) == { i \in Roots : Apart(p, i) }

Op(name, container, item) ==
    [op |-> name, container |-> container, item |-> item,
     before |-> IF container = NULL THEN <<>> ELSE Children(heap, container)]

InitTree ==
    /\ heap = Setup.heap
    /\ held = Setup.held
    /\ text = SetupText
    /\ val = NoVal
    /\ phase = "ready"
    /\ root = NULL
    /\ ret = NULL
    /\ errp = NULL
    /\ maxRead = 0
    /\ flags = NoFlags
    /\ opts = Op("none", NULL, NULL)
    /\ out = NoText
    /\ steps = 0
    /\ pb = NoBuffer

(* What a call leaves: c is the context after it, r what it returned, h    *)
(* what the caller holds afterwards.  A read through a null pointer ends   *)
(* the process, a second release of a block may.                           *)
TreeEffect(c, r, op, h) ==
    /\ phase = "ready"
    /\ steps < MaxSteps
    /\ \E ab \in (IF c.oob THEN {TRUE} ELSE Outcomes(c)) :
          /\ flags' = FlagsOf(c, ab)
          /\ phase' = IF ab THEN "crashed" ELSE "ready"
    /\ heap' = c.heap
    /\ ret' = r
    /\ opts' = op
    /\ held' = h
    /\ steps' = steps + 1
    /\ UNCHANGED <<text, val, root, errp, maxRead, out, pb>>

CreateCall ==
    \E f \in 0..MaxFailTree :
       \/ \E r \in {cJSON_CreateNull(Ctx(heap, f))} :
             TreeEffect(r.c, r.p, Op("create", NULL, NULL), held \cup ({r.p} \ {NULL}))
       \/ \E r \in {cJSON_CreateArray(Ctx(heap, f))} :
             TreeEffect(r.c, r.p, Op("create", NULL, NULL), held \cup ({r.p} \ {NULL}))
       \/ \E r \in {cJSON_CreateObject(Ctx(heap, f))} :
             TreeEffect(r.c, r.p, Op("create", NULL, NULL), held \cup ({r.p} \ {NULL}))
       \/ \E r \in {cJSON_CreateString(Ctx(heap, f), <<116>>)} :
             TreeEffect(r.c, r.p, Op("create", NULL, NULL), held \cup ({r.p} \ {NULL}))

AddItemToArrayCall ==
    \E array \in Arrays : \E item \in Fresh(array) :
       TreeEffect(cJSON_AddItemToArray(Ctx(heap, 0), array, item), NULL,
                  Op("add", array, item), held \ {item})

AddItemToObjectCall ==
    \E object \in Objects : \E item \in Fresh(object) :
    \E name \in Names : \E f \in 0..1 :
       TreeEffect(cJSON_AddItemToObject(Ctx(heap, f), object, name, item),
                  NULL, Op("add_name", object, item), held \ {item})

AddItemToObjectCSCall ==
    \E object \in Objects : \E item \in Fresh(object) :
    \E key \in ConstKeys(heap) :
       TreeEffect(cJSON_AddItemToObjectCS(Ctx(heap, 0), object, key, item),
                  NULL, Op("add_const", object, item), held \ {item})

AddItemReferenceToArrayCall ==
    \E array \in Arrays : \E f \in 0..1 :
    \E item \in { i \in Nodes : Apart(array, i) } :
       TreeEffect(cJSON_AddItemReferenceToArray(Ctx(heap, f), array, item),
                  NULL, Op("add_reference", array, item), held)

AddItemReferenceToObjectCall ==
    \E object \in Objects : \E f \in 0..MaxFailTree : \E name \in Names :
    \E item \in { i \in Nodes : Apart(object, i) } :
       TreeEffect(cJSON_AddItemReferenceToObject(Ctx(heap, f), object, name,
                                                 item),
                  NULL, Op("add_named_reference", object, item), held)

DetachItemFromArrayCall ==
    \E array \in Arrays \cup Objects : \E which \in 0..MaxWhich :
    \E d \in {cJSON_DetachItemFromArray(Ctx(heap, 0), array, which)} :
       TreeEffect(d.c, d.r, Op("detach", array, which),
                  held \cup ({d.r} \ {NULL}))

DetachItemFromObjectCall ==
    \E object \in Objects : \E name \in Names :
    \E d \in {cJSON_DetachItemFromObject(Ctx(heap, 0), object, name)} :
       TreeEffect(d.c, d.r, Op("detach_name", object, name),
                  held \cup ({d.r} \ {NULL}))

DeleteItemFromArrayCall ==
    \E array \in Arrays \cup Objects : \E which \in 0..MaxWhich :
       TreeEffect(cJSON_DeleteItemFromArray(Ctx(heap, 0), array, which), NULL,
                  Op("delete_item", array, which), held)

DeleteItemFromObjectCall ==
    \E object \in Objects : \E name \in Names :
       TreeEffect(cJSON_DeleteItemFromObject(Ctx(heap, 0), object, name),
                  NULL, Op("delete_name", object, name), held)

InsertItemInArrayCall ==
    \E array \in Arrays : \E which \in 0..MaxWhich :
    \E newitem \in Fresh(array) :
       TreeEffect(cJSON_InsertItemInArray(Ctx(heap, 0), array, which, newitem),
                  NULL, Op("insert", array, [which |-> which, item |-> newitem]),
                  held \ {newitem})

(* When there is no item at which, newitem stays with the caller. *)
ReplaceItemInArrayCall ==
    \E array \in Arrays : \E which \in 0..MaxWhich :
    \E newitem \in Fresh(array) :
       TreeEffect(internal_cJSON_ReplaceItemInArray(Ctx(heap, 0), array, which,
                                                    newitem),
                  NULL, Op("replace", array, newitem),
                  IF which < Len(Children(heap, array)) THEN held \ {newitem}
                  ELSE held)

ReplaceItemInObjectCall ==
    \E object \in Objects : \E name \in Names : \E f \in 0..1 :
    \E newitem \in Fresh(object) :
    \E c \in {internal_cJSON_ReplaceItemInObject(Ctx(heap, f), object, name,
                                                 newitem)} :
       TreeEffect(c, NULL, Op("replace_name", object, newitem),
                  IF \E q \in 1..Len(c.heap) : c.heap[q].kind = "node"
                        /\ (c.heap[q].child = newitem \/ c.heap[q].next = newitem)
                  THEN held \ {newitem} ELSE held)

DuplicateCall ==
    \E item \in Nodes : \E recurse \in BOOLEAN : \E f \in 0..MaxFailTree :
    \E d \in {cJSON_Duplicate(Ctx(heap, f), item, recurse)} :
       TreeEffect(d.c, d.p, Op("duplicate", NULL, item),
                  held \cup ({d.p} \ {NULL}))

DeleteTreeCall ==
    \E item \in Roots :
       TreeEffect(cJSON_Delete(Ctx(heap, 0), item), NULL,
                  Op("delete", NULL, item), held \ {item})

NextTree ==
    \/ CreateCall
    \/ AddItemToArrayCall
    \/ AddItemToObjectCall
    \/ AddItemToObjectCSCall
    \/ AddItemReferenceToArrayCall
    \/ AddItemReferenceToObjectCall
    \/ DetachItemFromArrayCall
    \/ DetachItemFromObjectCall
    \/ DeleteItemFromArrayCall
    \/ DeleteItemFromObjectCall
    \/ InsertItemInArrayCall
    \/ ReplaceItemInArrayCall
    \/ ReplaceItemInObjectCall
    \/ DuplicateCall
    \/ DeleteTreeCall

SpecTree == InitTree /\ [][NextTree]_vars

(***************************************************************************)
(* Detaching.                                                              *)
(***************************************************************************)
Without(s, k) == SubSeq(s, 1, k - 1) \o SubSeq(s, k + 1, Len(s))

Range(s) == { s[i] : i \in 1..Len(s) }

HasName(h, p, name) ==
    h[p].name # NULL /\ h[h[p].name].bytes = name

(* The place in s of the first item called name, 0 when there is none. *)
FirstNamed(h, s, name) ==
    IF \E i \in 1..Len(s) : HasName(h, s[i], name)
    THEN CHOOSE i \in 1..Len(s) :
            /\ HasName(h, s[i], name)
            /\ \A j \in 1..(i - 1) : ~HasName(h, s[j], name)
    ELSE 0

(* The place in the list before the call of the item the call names. *)
Named(h, op) ==
    IF op.op \in {"detach", "delete_item"}
    THEN (IF op.item < Len(op.before) THEN op.item + 1 ELSE 0)
    ELSE FirstNamed(h, op.before, op.item)

LiveOwners(h) ==
    { p \in 1..Len(h) : h[p].kind = "node" /\ h[p].live /\ ~h[p].is_reference }

(* What a detach that finds the item at place k leaves. *)
Detached(k) ==
    /\ phase' = "ready"
    /\ ret' = opts'.before[k]
    /\ heap'[ret'].next = NULL
    /\ \A p \in LiveOwners(heap') : ret' \notin Range(Children(heap', p))
    /\ Children(heap', opts'.container) = Without(opts'.before, k)
    /\ Len(Children(heap', opts'.container)) = Len(opts'.before) - 1

NotDetached ==
    /\ phase' = "ready"
    /\ ret' = NULL
    /\ heap' = heap

DetachStep ==
    opts'.op \in {"detach", "detach_name"} =>
        IF Named(heap, opts') = 0 THEN NotDetached
        ELSE Detached(Named(heap, opts'))

(* C13: a detach by index or by name returns the item at that index or     *)
(* the first item of that name with its next null, the item is in no       *)
(* child list any more, the other children keep their order and the        *)
(* container has one child less; when there is no such item it returns     *)
(* null and changes nothing.                                               *)
C13_Detach == [][DetachStep]_vars

(* The same for the calls that find a name on every child they compare:    *)
(* all detaches by index, and those by name that meet no unnamed child     *)
(* before the item they look for.                                          *)
C13_DetachAmongNamed ==
    [][(opts'.op = "detach_name"
          => \A i \in 1..Len(opts'.before) :
                (i <= Named(heap, opts') \/ Named(heap, opts') = 0)
                   => heap[opts'.before[i]].name # NULL)
       => DetachStep]_vars

C13_Found ==
    /\ opts.op = "detach_name"
    /\ ret # NULL
    /\ phase = "ready"
    /\ Len(opts.before) > 2

C13_Missing ==
    /\ opts.op \in {"detach", "detach_name"}
    /\ ret = NULL
    /\ phase = "ready"
    /\ Len(opts.before) > 0

(***************************************************************************)
(* Deleting references.                                                    *)
(***************************************************************************)
Released == { b \in 1..Len(heap) : heap[b].live /\ ~heap'[b].live }

(* The blocks the tree of p owns: its nodes without what references        *)
(* borrow, the names that are not the caller's, the payloads.              *)
OwnedBlocks(h, p) ==
    OwnedOf(h, p)
      \cup { h[n].name : n \in { m \in OwnedOf(h, p) :
                 h[m].name # NULL /\ ~h[m].string_is_const } }
      \cup { h[n].string : n \in { m \in OwnedOf(h, p) :
                 h[m].string # NULL /\ ~h[m].is_reference } }

References(h, p) == { r \in OwnedOf(h, p) : h[r].is_reference }

(* What the references in the tree of p borrow. *)
Borrowed(h, p) ==
    UNION { Tree(h, h[r].child, Len(h)) \cup ({h[r].string} \ {NULL}) :
            r \in References(h, p) }

(* The item a delete call deletes, NULL when it finds none. *)
Deleted(h, op) ==
    IF op.op = "delete" THEN op.item
    ELSE IF Named(h, op) = 0 THEN NULL
    ELSE op.before[Named(h, op)]

DeleteReferenceStep ==
    (/\ opts'.op \in {"delete", "delete_item"}
     /\ Deleted(heap, opts') # NULL
     /\ References(heap, Deleted(heap, opts')) # {})
    => /\ phase' = "ready"
       /\ References(heap, Deleted(heap, opts')) \subseteq Released
       /\ Released \subseteq OwnedBlocks(heap, Deleted(heap, opts'))
       /\ \A b \in Borrowed(heap, Deleted(heap, opts'))
                     \ OwnedBlocks(heap, Deleted(heap, opts')) :
             heap'[b] = heap[b]
       /\ opts'.op = "delete"
             => \A b \in (1..Len(heap)) \ Released : heap'[b] = heap[b]

(* C14: a delete of a tree with reference nodes in it releases those       *)
(* nodes and their names and nothing of what they borrow: the children     *)
(* and the payload of the item they refer to stay allocated and as they    *)
(* were, unless the deleted tree owns them itself, and cJSON_Delete        *)
(* changes no block it does not release.                                   *)
C14_DeleteReference == [][DeleteReferenceStep]_vars

(* A reference with borrowed children is released and the children stay. *)
C14_Witness ==
    /\ opts.op = "delete"
    /\ phase = "ready"
    /\ \E r \in 1..Len(heap) :
          /\ heap[r].kind = "node"
          /\ heap[r].is_reference
          /\ ~heap[r].live
          /\ heap[r].child # NULL
          /\ heap[heap[r].child].live
          /\ Len(Chain(heap, heap[r].child, Len(heap))) > 1

(***************************************************************************)
(* The caller's keys.                                                      *)
(***************************************************************************)
(* C15: a key the caller passed to cJSON_AddItemToObjectCS is never given  *)
(* to the release hook, whatever calls follow.                             *)
C15_ConstKeyKept == \A k \in ConstKeys(heap) : heap[k].live

(***************************************************************************)
(* Duplicates.                                                             *)
(***************************************************************************)
(* Every block that can be reached from p: nodes, names and payloads. *)
Blocks(h, p) ==
    TreeOf(h, p)
      \cup { h[n].name : n \in { m \in TreeOf(h, p) : h[m].name # NULL } }
      \cup { h[n].string : n \in { m \in TreeOf(h, p) : h[m].string # NULL } }

DuplicateOwned ==
    /\ ~heap'[ret'].is_reference
    /\ ~heap'[ret'].string_is_const
    /\ heap'[ret'].next = NULL
    /\ Blocks(heap', ret') \subseteq (Len(heap) + 1)..Len(heap')
    /\ \A b \in 1..Len(heap) : heap'[b] = heap[b]

(* C16: the item cJSON_Duplicate returns is no reference, has no const     *)
(* name and no next, and every node, name and payload that can be reached  *)
(* from it was allocated by the call; the call changes no other block.     *)
C16_DuplicateOwned ==
    [][(opts'.op = "duplicate" /\ ret' # NULL) => DuplicateOwned]_vars

(* The same for the items that carry no key of the caller's. *)
C16_DuplicateOwnedNoConstKey ==
    [][(/\ opts'.op = "duplicate"
        /\ ret' # NULL
        /\ \A n \in (IF heap'[ret'].child = NULL /\ heap[opts'.item].child # NULL
                     THEN {opts'.item} ELSE TreeOf(heap, opts'.item)) :
              ~heap[n].string_is_const)
       => DuplicateOwned]_vars

C16_Copied ==
    /\ opts.op = "duplicate"
    /\ ret # NULL
    /\ heap[ret].child # NULL
    /\ heap[ret].name # NULL

(***************************************************************************)
(* The names of an object's children.                                      *)
(***************************************************************************)
LiveObjects ==
    { p \in 1..Len(heap) :
        heap[p].kind = "node" /\ heap[p].live /\ heap[p].type = "Object" }

(* C17: every child of an object has a name, also after a call in which    *)
(* the allocation of the key's copy failed.                                *)
C17_ObjectChildrenNamed ==
    \A p \in LiveObjects :
       \A i \in 1..Len(Children(heap, p)) :
          heap[Children(heap, p)[i]].name # NULL

(* A call in which no allocation fails keeps the names. *)
C17_NamedWhenAllocated ==
    [][(C17_ObjectChildrenNamed /\ ~flags'.nomem)
          => C17_ObjectChildrenNamed']_vars

(***************************************************************************)
(* The shape of the child lists.                                           *)
(***************************************************************************)
LiveNodes == { p \in 1..Len(heap) : heap[p].kind = "node" /\ heap[p].live }

NoRepeat(s) == Cardinality(Range(s)) = Len(s)

(* C18: every child list ends (a walk of one step more than there are      *)
(* blocks meets no node twice), and a node that is no reference is in the  *)
(* list of at most one node that is no reference.                          *)
C18_ListsAcyclicUnshared ==
    /\ \A p \in LiveNodes :
          NoRepeat(Chain(heap, heap[p].child, Len(heap) + 1))
    /\ \A q \in LiveOwners(heap) :
          Cardinality({ p \in LiveOwners(heap) :
                          q \in Range(Children(heap, p)) }) <= 1

(* An item that was detached from an object is the last of three in the    *)
(* list it was added to.                                                   *)
C18_Witness ==
    /\ opts.op = "add"
    /\ heap[opts.item].name # NULL
    /\ Len(Children(heap, opts.container)) > 2

(***************************************************************************)
(* Inserting.                                                              *)
(***************************************************************************)
InsertAt(s, k, x) == SubSeq(s, 1, k) \o <<x>> \o SubSeq(s, k + 1, Len(s))

(* C19: after cJSON_InsertItemInArray(array, which, newitem) the children  *)
(* of array are those it had, in their order, with newitem before the one  *)
(* that was at which, or last when there was none; one child more.         *)
C19_InsertAt ==
    opts.op = "insert" =>
       /\ Children(heap, opts.container)
             = InsertAt(opts.before,
                        IF opts.item.which < Len(opts.before)
                        THEN opts.item.which ELSE Len(opts.before),
                        opts.item.item)
       /\ Len(Children(heap, opts.container)) = Len(opts.before) + 1

C19_Middle ==
    /\ opts.op = "insert"
    /\ opts.item.which > 0
    /\ opts.item.which < Len(opts.before)

C19_Beyond ==
    /\ opts.op = "insert"
    /\ opts.item.which > Len(opts.before)
    /\ Len(opts.before) > 0

(***************************************************************************)
(* Printing into a buffer (the branches of the printer with p non-null).   *)
(* The buffer is a block of the heap; a printbuffer is its number, with    *)
(* length, offset and noalloc as in the code, wr, the index one past the   *)
(* highest byte written through it, fill, the byte that memory holds       *)
(* which nothing was written to, at, the index the outermost call          *)
(* returned, and beyond, the number of bytes read behind the terminator of *)
(* a string of a node.  A pointer into the buffer is an                    *)
(* index from 0; a result is [c, p, ok, at]: the context and printbuffer   *)
(* after the call, ok for a non-null return, at the index returned.         *)
(* size_t is an unsigned type of SizeBits bits: sums and products of sizes *)
(* are taken modulo SIZE_MAX + 1.                                          *)
(***************************************************************************)
SizeBits == 8

SIZE_MAX == 2^SizeBits - 1

NewBuf(cap, fill, kind) ==
    [kind |-> kind, live |-> TRUE, cap |-> cap, bytes |-> [i \in 1..cap |-> fill]]

printbuffer(buffer, length, noalloc, fill) ==
    [buffer |-> buffer, length |-> length, offset |-> 0, noalloc |-> noalloc,
     wr |-> 0, fill |-> fill, at |-> 0, beyond |-> 0]

Failed(c, p) == [c |-> c, p |-> p, ok |-> FALSE, at |-> 0]

(* memcpy(newbuffer, p->buffer, p->length); free_fn(p->buffer); *)
ensure_moved(a, p, newsize) ==
    IF a.p = NULL
    THEN Failed(free_fn(a.c, p.buffer),
                [p EXCEPT !.length = 0, !.buffer = NULL])
    ELSE [c |-> free_fn(
                  [a.c EXCEPT !.heap[a.p].bytes =
                      [i \in 1..newsize |->
                          IF i <= p.length /\ i <= Len(a.c.heap[p.buffer].bytes)
                          THEN a.c.heap[p.buffer].bytes[i] ELSE @[i]],
                      !.oob = @ \/ p.length > Len(a.c.heap[p.buffer].bytes)],
                  p.buffer),
          p |-> [p EXCEPT !.length = newsize, !.buffer = a.p],
          ok |-> TRUE, at |-> p.offset]

ensure_grow(c, p, needed, newsize) ==
    IF newsize <= needed THEN Failed(c, p)
    ELSE ensure_moved(malloc_fn(c, NewBuf(newsize, p.fill, "buf")), p, newsize)

ensure_sum(c, p, needed) ==
    IF needed <= p.length
    THEN [c |-> c, p |-> p, ok |-> TRUE, at |-> p.offset]
    ELSE IF p.noalloc THEN Failed(c, p)
    ELSE ensure_grow(c, p, needed,
                     (Max(p.length, needed) * 2) % (SIZE_MAX + 1))

(* An ensure that grows the caller's buffer as well. *)
ensure_Always(c, p, needed) ==
    IF p.buffer = NULL THEN Failed(c, p)
    ELSE ensure_sum(c, [p EXCEPT !.noalloc = FALSE],
                    (needed + p.offset) % (SIZE_MAX + 1))

ensure(c, p, needed) ==
    IF p.buffer = NULL THEN Failed(c, p)
    ELSE ensure_sum(c, p, (needed + p.offset) % (SIZE_MAX + 1))

(* The bytes s are stored from the index r.at on; what falls outside the   *)
(* block is a write out of bounds.                                         *)
store(r, s) ==
    IF ~r.ok THEN r
    ELSE [r EXCEPT
            !.c.heap[r.p.buffer].bytes =
                [i \in 1..Len(@) |->
                    IF i > r.at /\ i <= r.at + Len(s) THEN s[i - r.at]
                    ELSE @[i]],
            !.c.oob = @ \/ r.at + Len(s) > Len(r.c.heap[r.p.buffer].bytes),
            !.p.wr = Max(@, r.at + Len(s))]

(* ptr = ensure(p, needed); then the bytes s from ptr on *)
emit(c, p, needed, s) == store(ensure(c, p, needed), s)

(* p->offset += n *)
advance(r, n) == IF r.ok THEN [r EXCEPT !.p.offset = @ + n] ELSE r

(* strlen from the index from on: the number of bytes before the first 0,  *)
(* the bytes left in the block when there is none.                         *)
strlen_from(b, from) ==
    IF \E i \in (from + 1)..Len(b) : b[i] = 0
    THEN (CHOOSE i \in (from + 1)..Len(b) :
             b[i] = 0 /\ \A j \in (from + 1)..(i - 1) : b[j] # 0) - 1 - from
    ELSE Max(Len(b) - from, 0)

update(c, p) ==
    IF p.buffer = NULL THEN 0
    ELSE p.offset + strlen_from(c.heap[p.buffer].bytes, p.offset)

(* p->offset = update(p); a string without its 0 in the block is read      *)
(* beyond the block.                                                       *)
updated(r) ==
    IF ~r.ok THEN r
    ELSE [r EXCEPT
            !.p.offset = update(r.c, r.p),
            !.c.oob = @ \/ (r.p.buffer # NULL
                            /\ \A i \in (r.p.offset + 1)..
                                        Len(r.c.heap[r.p.buffer].bytes) :
                                  r.c.heap[r.p.buffer].bytes[i] # 0)]

returned(r, i) == IF r.ok THEN [r EXCEPT !.at = i] ELSE r

print_number_p(c, p, item) ==
    emit(c, p, print_double(c.heap[item].number).need,
         Append(print_double(c.heap[item].number).bytes, 0))

print_string_ptr_p(c, p, str) ==
    emit(c, p, print_string_ptr(c.heap, str).size,
         Append(print_string_ptr(c.heap, str).bytes, 0))

print_string_p(c, p, item) == print_string_ptr_p(c, p, c.heap[item].string)

(* sizeof('\0'): the constant has the type int in C. *)
sizeof_NUL == 4

(* memcpy(out, item->string, raw_length): the payload, its terminator and  *)
(* the raw_length - strlen - 1 bytes that memory holds behind it.          *)
raw_copy(s, raw_length, fill) ==
    Append(s, 0) \o [i \in 1..(raw_length - Len(s) - 1) |-> fill]

(* raw_length = strlen(item->string) + sizeof('\0') *)
raw_length(s) == Len(s) + sizeof_NUL

raw_read(r, s) ==
    IF r.ok THEN [r EXCEPT !.p.beyond = Max(@, raw_length(s) - Len(s) - 1)]
    ELSE r

(* case cJSON_Raw *)
print_raw_p(c, p, item) ==
    IF c.heap[item].string = NULL
    THEN Failed(IF ~p.noalloc THEN free_fn(c, p.buffer) ELSE c, p)
    ELSE raw_read(emit(c, p, raw_length(c.heap[c.heap[item].string].bytes),
                       raw_copy(c.heap[c.heap[item].string].bytes,
                                raw_length(c.heap[c.heap[item].string].bytes),
                                p.fill)),
                  c.heap[c.heap[item].string].bytes)

RECURSIVE print_value_p(_, _, _, _, _)
RECURSIVE array_entries_p(_, _, _, _)
RECURSIVE object_members_p(_, _, _, _)

(* After the value of child: the separator when another entry follows. *)
array_separator_p(r, child, depth, fmt) ==
    IF ~r.ok THEN r
    ELSE array_entries_p(
             IF r.c.heap[child].next # NULL
             THEN (IF fmt THEN advance(emit(r.c, r.p, 3, <<44, 32, 0>>), 2)
                   ELSE advance(emit(r.c, r.p, 2, <<44, 0>>), 1))
             ELSE r,
             r.c.heap[child].next, depth, fmt)

(* while (child && !fail) *)
array_entries_p(r, child, depth, fmt) ==
    IF ~r.ok \/ child = NULL THEN r
    ELSE array_separator_p(
             updated(print_value_p(r.c, r.p, child, depth + 1, fmt)),
             child, depth, fmt)

array_close_p(r, i) ==
    IF ~r.ok THEN r ELSE returned(emit(r.c, r.p, 2, <<93, 0>>), i)

print_array_p(c, p, item, depth, fmt) ==
    IF c.heap[item].child = NULL THEN emit(c, p, 3, <<91, 93, 0>>)
    ELSE array_close_p(
             array_entries_p(advance(emit(c, p, 1, <<91>>), 1),
                             c.heap[item].child, depth, fmt),
             p.offset)

(* After the value of child: the comma and the newline. *)
member_end_p(r, child, depth, fmt) ==
    IF ~r.ok THEN r
    ELSE object_members_p(
             advance(emit(r.c, r.p,
                          (IF fmt THEN 1 ELSE 0)
                            + (IF r.c.heap[child].next # NULL THEN 1 ELSE 0) + 1,
                          (IF r.c.heap[child].next # NULL THEN <<44>> ELSE <<>>)
                            \o (IF fmt THEN <<10>> ELSE <<>>) \o <<0>>),
                     (IF fmt THEN 1 ELSE 0)
                       + (IF r.c.heap[child].next # NULL THEN 1 ELSE 0)),
             r.c.heap[child].next, depth, fmt)

(* After the colon: the value. *)
member_value_p(r, child, depth, fmt) ==
    IF ~r.ok THEN r
    ELSE member_end_p(updated(print_value_p(r.c, r.p, child, depth, fmt)),
                      child, depth, fmt)

(* After the key: the colon, without a 0 behind it. *)
member_colon_p(r, child, depth, fmt) ==
    IF ~r.ok THEN r
    ELSE member_value_p(
             IF fmt THEN advance(emit(r.c, r.p, 2, <<58, 9>>), 2)
             ELSE advance(emit(r.c, r.p, 1, <<58>>), 1),
             child, depth, fmt)

(* After the tabs: the key. *)
member_key_p(r, child, depth, fmt) ==
    IF ~r.ok THEN r
    ELSE member_colon_p(
             updated(print_string_ptr_p(r.c, r.p, r.c.heap[child].name)),
             child, depth, fmt)

(* while (child), depth being incremented already *)
object_members_p(r, child, depth, fmt) ==
    IF ~r.ok \/ child = NULL THEN r
    ELSE member_key_p(
             IF fmt THEN advance(emit(r.c, r.p, depth, Tabs(depth)), depth)
             ELSE r,
             child, depth, fmt)

(* A closing brace that is indented like the members before it. *)
object_close_p_Indented(r, i, depth, fmt) ==
    IF ~r.ok THEN r
    ELSE IF fmt
    THEN returned(emit(r.c, r.p, depth + 2, Tabs(depth) \o <<125, 0>>),
                  depth - 1)
    ELSE returned(emit(r.c, r.p, 2, <<125, 0>>), i)

(* The closing brace; in the formatted case the loop over the tabs has     *)
(* left depth - 1 in i, which the return value is computed from.           *)
object_close_p(r, i, depth, fmt) ==
    IF ~r.ok THEN r
    ELSE IF fmt
    THEN returned(emit(r.c, r.p, depth + 1, Tabs(depth - 1) \o <<125, 0>>),
                  depth - 1)
    ELSE returned(emit(r.c, r.p, 2, <<125, 0>>), i)

print_object_p(c, p, item, depth, fmt) ==
    IF c.heap[item].child = NULL
    THEN (IF fmt
          THEN emit(c, p, depth + 4, <<123, 10>> \o Tabs(depth) \o <<125, 0>>)
          ELSE emit(c, p, 3, <<123, 125, 0>>))
    ELSE object_close_p(
             object_members_p(
                 IF fmt THEN advance(emit(c, p, 3, <<123, 10, 0>>), 2)
                 ELSE advance(emit(c, p, 2, <<123, 0>>), 1),
                 c.heap[item].child, depth + 1, fmt),
             p.offset, depth + 1, fmt)

print_value_p(c, p, item, depth, fmt) ==
    IF item = NULL THEN Failed(c, p)
    ELSE CASE c.heap[item].type = "Null"   -> emit(c, p, 5, Append(S_null, 0))
           [] c.heap[item].type = "False"  -> emit(c, p, 6, Append(S_false, 0))
           [] c.heap[item].type = "True"   -> emit(c, p, 5, Append(S_true, 0))
           [] c.heap[item].type = "Number" -> print_number_p(c, p, item)
           [] c.heap[item].type = "Raw"    -> print_raw_p(c, p, item)
           [] c.heap[item].type = "String" -> print_string_p(c, p, item)
           [] c.heap[item].type = "Array"  ->
                print_array_p(c, p, item, depth, fmt)
           [] c.heap[item].type = "Object" ->
                print_object_p(c, p, item, depth, fmt)
           [] OTHER -> Failed(c, p)

(* buf is the caller's block of len bytes. *)
cJSON_PrintPreallocated(c, item, buf, len, fill, fmt) ==
    print_value_p(c, printbuffer(buf, len, TRUE, fill), item, 0, fmt)

print_buffered(a, item, prebuffer, fill, fmt) ==
    IF a.p = NULL THEN Failed(a.c, NoBuffer)
    ELSE print_value_p(a.c, printbuffer(a.p, prebuffer, FALSE, fill), item, 0,
                       fmt)

cJSON_PrintBuffered(c, item, prebuffer, fill, fmt) ==
    print_buffered(malloc_fn(c, NewBuf(prebuffer, fill, "buf")), item,
                   prebuffer, fill, fmt)

(***************************************************************************)
(* The caller of the buffer printers: it parses one of PrintTexts and      *)
(* prints the tree into a buffer of its own of opts.len bytes              *)
(* (cJSON_PrintPreallocated) or into one the library allocates with that   *)
(* size (cJSON_PrintBuffered).  What the buffers hold before the call is   *)
(* opts.fill.  The structure is public: before printing, the caller may    *)
(* have given one node of the tree the kind Raw (with the string of the    *)
(* node as its payload, as cJSON_CreateRaw builds it, or without one) or a *)
(* kind that print_value does not know; it may also pass no item at all.   *)
(***************************************************************************)
MaxCap == 40

Fills == {0, 170}

PrintTexts ==
    { (* null *)
      <<110, 117, 108, 108>>,
      (* [] *)
      <<91, 93>>,
      (* {} *)
      <<123, 125>>,
      (* [0,-7] *)
      <<91, 48, 44, 45, 55, 93>>,
      (* "a\n\u0001" *)
      <<34, 97, 92, 110, 92, 117, 48, 48, 48, 49, 34>>,
      (* {"k":[true,{}]} *)
      <<123, 34, 107, 34, 58, 91, 116, 114, 117, 101, 44, 123, 125, 93, 125>>,
      (* [[],{"":false}] *)
      <<91, 91, 93, 44, 123, 34, 34, 58, 102, 97, 108, 115, 101, 125, 93>>,
      (* {"a":"b","c":1} *)
      <<123, 34, 97, 34, 58, 34, 98, 34, 44, 34, 99, 34, 58, 49, 125>>,
      (* {"a":{"b":{}}} *)
      <<123, 34, 97, 34, 58, 123, 34, 98, 34, 58, 123, 125, 125, 125>> }

Parsed(t) == cJSON_ParseWithOpts(Ctx(<<>>, 0), Mem(t, 0), FALSE, FALSE)

Kinds == {"Raw", "Invalid"}

(* What the caller did to the tree in the heap h: nothing, or              *)
(* node.type = type; and whether it passes the root or NULL.               *)
Alters(h) ==
    {[node |-> NULL, type |-> "Zero", item |-> i] : i \in BOOLEAN}
      \cup {[node |-> n, type |-> k, item |-> TRUE] :
               n \in {b \in 1..Len(h) : h[b].kind = "node"}, k \in Kinds}

Altered(h, a) ==
    IF a.node = NULL THEN h ELSE [h EXCEPT ![a.node].type = a.type]

CallerBuffer(h) == CHOOSE b \in 1..Len(h) : h[b].kind = "caller"

(* The caller's state with the parsed tree r of the text. *)
InitPrinter(r) ==
    /\ \E f \in [fmt : BOOLEAN, len : 0..MaxCap, fill : Fills] :
          \E a \in Alters(r.c.heap) :
             opts = [fmt |-> f.fmt, len |-> f.len, fill |-> f.fill, alter |-> a]
    /\ heap = Append(Altered(r.c.heap, opts.alter),
                     NewBuf(opts.len, opts.fill, "caller"))
    /\ root = IF opts.alter.item THEN r.r ELSE NULL

InitPrint ==
    /\ text \in PrintTexts
    /\ InitPrinter(Parsed(text))
    /\ val = NoVal
    /\ phase = "ready"
    /\ ret = NULL
    /\ errp = NULL
    /\ maxRead = 0
    /\ flags = NoFlags
    /\ out = NoText
    /\ held = {}
    /\ steps = 0
    /\ pb = NoBuffer

(* The call leaves r; the caller reads the string at the returned place. *)
PrintEffect(r) ==
    /\ heap' = r.c.heap
    /\ pb' = [r.p EXCEPT !.at = r.at]
    /\ ret' = IF r.ok THEN 1 ELSE 0
    /\ flags' = FlagsOf(r.c, FALSE)
    /\ out' = IF r.ok
              THEN SubSeq(CString(r.c.heap[r.p.buffer].bytes, r.at + 1),
                          r.at + 1,
                          Len(CString(r.c.heap[r.p.buffer].bytes, r.at + 1)))
              ELSE NoText
    /\ UNCHANGED <<text, val, root, errp, maxRead, opts, held, steps>>

PrintPreallocatedCall ==
    /\ phase = "ready"
    /\ phase' = "preallocated"
    /\ PrintEffect(cJSON_PrintPreallocated(Ctx(heap, 0), root,
                                           CallerBuffer(heap), opts.len,
                                           opts.fill, opts.fmt))

PrintBufferedCall ==
    /\ phase = "ready"
    /\ opts.len > 0
    /\ phase' = "buffered"
    /\ \E f \in 0..MaxFailTree :
          PrintEffect(cJSON_PrintBuffered(Ctx(heap, f), root, opts.len,
                                          opts.fill, opts.fmt))

NextPrint ==
    \/ PrintPreallocatedCall
    \/ PrintBufferedCall

SpecPrint == InitPrint /\ [][NextPrint]_vars

(* The text the printer without a buffer gives for the tree. *)
Expected == IF opts.fmt THEN cJSON_Print(heap, root)
            ELSE cJSON_PrintUnformatted(heap, root)

PreallocatedStep ==
    phase' = "preallocated" =>
       /\ Len(heap') = Len(heap)
       /\ \A b \in 1..Len(heap) :
             /\ heap'[b].live
             /\ b # CallerBuffer(heap) => heap'[b] = heap[b]
       /\ pb'.buffer = CallerBuffer(heap)
       /\ pb'.wr <= opts.len
       /\ ~flags'.oob
       /\ ret' = 1 => (out' = Expected /\ Len(Expected) + 1 <= opts.len)
       /\ Len(Expected) + 1 > opts.len => ret' = 0

(* C20: cJSON_PrintPreallocated allocates nothing, releases nothing, keeps  *)
(* the caller's buffer as its buffer and writes below len only; when it    *)
(* succeeds the buffer holds the text with its terminator, and it fails    *)
(* when the text does not fit.                                             *)
C20_Preallocated == [][PreallocatedStep]_vars

(* It has written into the buffer and failed for lack of room. *)
C20_Witness ==
    /\ phase = "preallocated"
    /\ ret = 0
    /\ pb.wr > 0
    /\ pb.wr <= opts.len

(* The text and its terminator fill the buffer to the last byte. *)
C20_ExactFit ==
    /\ phase = "preallocated"
    /\ ret = 1
    /\ pb.wr = opts.len
    /\ Len(out) + 1 = opts.len

(* The room the printer asks for beyond the text: a 1 needs 21 bytes. *)
C20_Reserved ==
    /\ phase = "preallocated"
    /\ ret = 0
    /\ opts.len > Len(text) + 1
    /\ ~opts.fmt

(***************************************************************************)
(* The buffer of cJSON_PrintBuffered.                                      *)
(***************************************************************************)
Buffers(h) == {b \in 1..Len(h) : h[b].kind = "buf"}

(* What a call of cJSON_PrintBuffered leaves of the buffers it allocated:  *)
(* after NULL none is live and none was released twice; after a string the *)
(* string is the start of the one live buffer.                             *)
BufferedStep ==
    phase' = "buffered" =>
       /\ ~flags'.dfree
       /\ ret' = 0 => \A b \in Buffers(heap') : ~heap'[b].live
       /\ ret' = 1 =>
             /\ pb'.buffer \in Buffers(heap')
             /\ pb'.at = 0
             /\ \A b \in Buffers(heap') : heap'[b].live <=> b = pb'.buffer

(* C21: when cJSON_PrintBuffered returns NULL, whatever the reason, every  *)
(* buffer it allocated has been released exactly once; when it returns a   *)
(* string, that string is the current buffer and the only live one.        *)
C21_BufferReleased == [][BufferedStep]_vars

(* The item is there and every node of it has a kind print_value knows. *)
Printable == root # NULL /\ opts.alter.type # "Invalid"

(* C21 for the items print_value has a case for: the failures left are the *)
(* refused allocation while growing and the Raw node without a string.     *)
C21_ReleasedWhenPrintable == [][Printable => BufferedStep]_vars

(* NULL because the allocation of a larger buffer was refused. *)
C21_GrowthRefused ==
    /\ phase = "buffered"
    /\ ret = 0
    /\ flags.nomem
    /\ Buffers(heap) # {}

(* NULL for a Raw node without a string. *)
C21_VoidRaw ==
    /\ phase = "buffered"
    /\ ret = 0
    /\ ~flags.nomem
    /\ opts.alter.type = "Raw"

(* NULL with the buffer still allocated. *)
C21_Leaked ==
    /\ phase = "buffered"
    /\ ret = 0
    /\ \E b \in Buffers(heap) : heap[b].live

(***************************************************************************)
(* Numbers: the caller parses the text of one number, as it stands, behind *)
(* a minus sign or behind a plus sign, and prints the item it got.         *)
(***************************************************************************)
NumberBodies ==
    {
      (* 0 *)
      <<48>>,
      (* 0.0 *)
      <<48, 46, 48>>,
      (* 7 *)
      <<55>>,
      (* 1.5 *)
      <<49, 46, 53>>,
      (* 0.5 *)
      <<48, 46, 53>>,
      (* 123.456 *)
      <<49, 50, 51, 46, 52, 53, 54>>,
      (* 0.000001 *)
      <<48, 46, 48, 48, 48, 48, 48, 49>>,
      (* 1e-7 *)
      <<49, 101, 45, 55>>,
      (* 1e-20 *)
      <<49, 101, 45, 50, 48>>,
      (* 2e-16 *)
      <<50, 101, 45, 49, 54>>,
      (* 3e-16 *)
      <<51, 101, 45, 49, 54>>,
      (* 1e9 *)
      <<49, 101, 57>>,
      (* 2147483647 *)
      <<50, 49, 52, 55, 52, 56, 51, 54, 52, 55>>,
      (* 3000000000 *)
      <<51, 48, 48, 48, 48, 48, 48, 48, 48, 48>>,
      (* 1e22 *)
      <<49, 101, 50, 50>>,
      (* 1e60 *)
      <<49, 101, 54, 48>>,
      (* 1.0e100 *)
      <<49, 46, 48, 101, 49, 48, 48>>,
      (* 1e999 *)
      <<49, 101, 57, 57, 57>>,
      (* 1e-999 *)
      <<49, 101, 45, 57, 57, 57>>,
      (* 0x10 *)
      <<48, 120, 49, 48>>,
      (* 0x *)
      <<48, 120>>,
      (* 0X1f *)
      <<48, 88, 49, 102>>,
      (* .5 *)
      <<46, 53>>,
      (* 5. *)
      <<53, 46>>,
      (* 1e *)
      <<49, 101>>,
      (* 1e+ *)
      <<49, 101, 43>>,
      (* 1E2 *)
      <<49, 69, 50>>,
      (* inf *)
      <<105, 110, 102>>,
      (* Infinity *)
      <<73, 110, 102, 105, 110, 105, 116, 121>>,
      (* nan *)
      <<110, 97, 110>>,
      (* 12a *)
      <<49, 50, 97>> }

NumberTexts ==
    NumberBodies \cup {<<45>> \o b : b \in NumberBodies}
      \cup {<<43>> \o b : b \in NumberBodies}

InitNumber ==
    /\ text \in NumberTexts
    /\ val = NoVal
    /\ heap = <<>>
    /\ root = NULL
    /\ phase = "ready"
    /\ ret = NULL
    /\ errp = NULL
    /\ maxRead = 0
    /\ flags = NoFlags
    /\ opts = NoOpts
    /\ out = NoText
    /\ held = {}
    /\ steps = 0
    /\ pb = NoBuffer

(* root = cJSON_Parse(text) *)
ParseNumberCall ==
    /\ phase = "ready"
    /\ \E r \in {cJSON_ParseWithOpts(Ctx(heap, 0), Mem(text, 0), FALSE, FALSE)} :
          /\ heap' = r.c.heap
          /\ root' = r.r
          /\ errp' = r.c.ep
          /\ maxRead' = r.c.rd
          /\ flags' = FlagsOf(r.c, FALSE)
    /\ phase' = "parsed"
    /\ UNCHANGED <<text, val, ret, opts, out, held, steps, pb>>

(* out = cJSON_PrintUnformatted(root) *)
PrintNumberCall ==
    /\ phase = "parsed"
    /\ root # NULL
    /\ out' = cJSON_PrintUnformatted(heap, root)
    /\ phase' = "printed"
    /\ UNCHANGED <<text, val, heap, root, ret, errp, maxRead, flags, opts, held,
                   steps, pb>>

NextNumber == ParseNumberCall \/ PrintNumberCall

SpecNumber == InitNumber /\ [][NextNumber]_vars

(* The text starts with 0x or 0X, with a '.', with a '+'. *)
StartsHex ==
    Len(text) >= 2 /\ text[1] = 48 /\ text[2] \in {120, 88}

StartsFraction == Len(text) >= 1 /\ text[1] = 46

StartsPlus == Len(text) >= 1 /\ text[1] = 43

(* C22: a text whose value starts with a hexadecimal lexeme, with a bare   *)
(* fraction or with a plus sign is rejected: cJSON_Parse returns NULL.     *)
C22_StrictNumbers ==
    phase = "parsed" /\ (StartsHex \/ StartsFraction \/ StartsPlus)
       => root = NULL

(* C22 without the hexadecimal lexeme: a bare fraction and a leading plus  *)
(* sign are rejected.                                                      *)
C22_FractionAndPlusRejected ==
    phase = "parsed" /\ (StartsFraction \/ StartsPlus) => root = NULL

(* 0x10 is parsed, and to 16. *)
C22_HexAccepted ==
    /\ phase = "parsed"
    /\ StartsHex
    /\ root # NULL
    /\ heap[root].type = "Number"
    /\ heap[root].number = Fin(FALSE, 16, 0)

(* .5 has been refused. *)
C22_FractionRefused ==
    /\ phase = "parsed"
    /\ text = <<46, 53>>
    /\ root = NULL
    /\ errp = 1

(***************************************************************************)
(* The forms of a printed number.                                          *)
(***************************************************************************)
(* Digits behind an optional minus sign and nothing else. *)
IsIntegerText(t) ==
    /\ Len(t) >= 1
    /\ \A i \in 1..Len(t) : IsDigit(t[i]) \/ (i = 1 /\ t[i] = 45 /\ Len(t) > 1)

(* d.dddddde+xx *)
IsScientificText(t) ==
    \E k \in 1..Len(t) :
       /\ t[k] = 101
       /\ \E j \in 1..(k - 1) :
             /\ t[j] = 46
             /\ IsIntegerText(SubSeq(t, 1, j - 1))
             /\ k - j = 7
             /\ \A i \in (j + 1)..(k - 1) : IsDigit(t[i])
       /\ k + 2 < Len(t) + 1
       /\ t[k + 1] \in {43, 45}
       /\ \A i \in (k + 2)..Len(t) : IsDigit(t[i])

(* ddd.dddddd *)
IsFixedText(t) ==
    \E j \in 1..Len(t) :
       /\ t[j] = 46
       /\ IsIntegerText(SubSeq(t, 1, j - 1))
       /\ Len(t) - j = 6
       /\ \A i \in (j + 1)..Len(t) : IsDigit(t[i])

(* The decimal numeral of a double with an integer value. *)
RefInteger(d) ==
    (IF d.neg THEN <<45>> ELSE <<>>) \o RefDec(d.m) \o [i \in 1..d.e |-> 48]

(* The form the cases of the claim give the text t of the number d, taken  *)
(* in their order.                                                         *)
RefNumberForm(d, t) ==
    IF d.cls = "fin" /\ d.m = 0 THEN t = <<48>>
    ELSE IF d.cls # "fin" THEN t = <<110, 117, 108, 108>>
    ELSE IF d.e >= 0 /\ ~AbsLess(Fin(FALSE, INT_MAX, 0), d)
    THEN t = RefInteger(d)
    ELSE IF d.e >= 0 /\ AbsLess(d, Fin(FALSE, 1, 60))
    THEN IsIntegerText(t)
    ELSE IF AbsLess(d, Fin(FALSE, 1, 0 - 6)) \/ AbsLess(Fin(FALSE, 1, 9), d)
    THEN IsScientificText(t)
    ELSE IsFixedText(t)

Printed == phase = "printed" /\ heap[root].type = "Number"

(* C23: a Number prints as 0 when it is 0, as null when it is NaN or an    *)
(* infinity, as a decimal integer when its value is an integer of 32 bits, *)
(* without fraction digits when it is another integer below 1e60, in       *)
(* scientific form when its magnitude is below 1e-6 or above 1e9, and in   *)
(* fixed form otherwise.                                                   *)
C23_NumberForm == Printed => RefNumberForm(heap[root].number, out)

(* Positive, not zero, and at most DBL_EPSILON. *)
Minute(d) == d.cls = "fin" /\ d.m # 0 /\ ~d.neg /\ ~AbsLess(DBL_EPSILON, d)

(* C23 for every number but the positive ones up to DBL_EPSILON. *)
C23_NumberFormAboveEpsilon ==
    Printed /\ ~Minute(heap[root].number)
       => RefNumberForm(heap[root].number, out)

(* 1e-20 printed as 0. *)
C23_MinuteAsZero ==
    /\ Printed
    /\ Minute(heap[root].number)
    /\ out = <<48>>

(* 1.0e100 in scientific form. *)
C23_Scientific ==
    /\ Printed
    /\ heap[root].number = Fin(FALSE, 1, 100)
    /\ out = <<49, 46, 48, 48, 48, 48, 48, 48, 101, 43, 49, 48, 48>>

(* -3000000000, an integer beyond 32 bits. *)
C23_WideInteger ==
    /\ Printed
    /\ heap[root].number = Fin(TRUE, 3, 9)
    /\ out = <<45, 51, 48, 48, 48, 48, 48, 48, 48, 48, 48>>

(* 123.456 in fixed form. *)
C23_Fixed ==
    /\ Printed
    /\ out = <<49, 50, 51, 46, 52, 53, 54, 48, 48, 48>>

(* NaN and the infinities as null. *)
C23_Null ==
    /\ Printed
    /\ heap[root].number.cls \in {"nan", "inf"}
    /\ out = <<110, 117, 108, 108>>

(***************************************************************************)
(* ensure on its own: a buffer of opts.length bytes the printer has        *)
(* written opts.offset bytes of (the byte 120 each, a 0 behind them where  *)
(* there is room), and a request for opts.needed bytes more.  The sizes    *)
(* are taken at both ends of size_t and around its half.                   *)
(***************************************************************************)
Half == (SIZE_MAX + 1) \div 2

EnsureLengths == {1, 8, Half - 1, Half, SIZE_MAX}

EnsureNeeded ==
    {0, 1, 2, 7, 8, 9, 64, Half - 8, Half - 1, Half, Half + 1, SIZE_MAX - 8,
     SIZE_MAX - 7, SIZE_MAX - 1, SIZE_MAX}

Written(length, offset) ==
    [i \in 1..length |-> IF i <= offset THEN 120 ELSE IF i = offset + 1 THEN 0
                         ELSE 170]

InitEnsure ==
    /\ \E l \in EnsureLengths : \E o \in {0, l - 1, l} : \E n \in EnsureNeeded :
          opts = [length |-> l, offset |-> o, needed |-> n]
    /\ heap = <<[NewBuf(opts.length, 170, "buf") EXCEPT
                   !.bytes = Written(opts.length, opts.offset)]>>
    /\ pb = [printbuffer(1, opts.length, FALSE, 170) EXCEPT
               !.offset = opts.offset, !.wr = opts.offset]
    /\ text = <<>>
    /\ val = NoVal
    /\ root = NULL
    /\ phase = "ready"
    /\ ret = NULL
    /\ errp = NULL
    /\ maxRead = 0
    /\ flags = NoFlags
    /\ out = NoText
    /\ held = {}
    /\ steps = 0

(* ptr = ensure(&p, needed, hooks); the hook may refuse the allocation. *)
EnsureCall ==
    /\ phase = "ready"
    /\ \E f \in 0..1 :
       \E r \in {ensure(Ctx(heap, f), pb, opts.needed)} :
          /\ heap' = r.c.heap
          /\ pb' = [r.p EXCEPT !.at = r.at]
          /\ ret' = IF r.ok THEN 1 ELSE 0
          /\ flags' = FlagsOf(r.c, FALSE)
    /\ phase' = "ensured"
    /\ UNCHANGED <<text, val, root, errp, maxRead, opts, out, held, steps>>

NextEnsure == EnsureCall

SpecEnsure == InitEnsure /\ [][NextEnsure]_vars

(* The buffer after a successful ensure has room for offset + needed bytes *)
(* and starts with the offset bytes written before; the pointer returned   *)
(* is the place behind them.                                               *)
Ensured ==
    /\ heap[pb.buffer].live
    /\ Len(heap[pb.buffer].bytes) >= opts.offset + opts.needed
    /\ pb.length = Len(heap[pb.buffer].bytes)
    /\ pb.at = opts.offset
    /\ \A i \in 1..opts.offset : heap[pb.buffer].bytes[i] = 120

(* offset + needed, or twice that, is more than SIZE_MAX. *)
SumWraps == opts.offset + opts.needed > SIZE_MAX

DoublingWraps ==
    /\ ~SumWraps
    /\ opts.offset + opts.needed > opts.length
    /\ 2 * (opts.offset + opts.needed) > SIZE_MAX

(* C24: when ensure succeeds the buffer holds at least offset + needed     *)
(* bytes, counted as integers, and the bytes written before are kept; when *)
(* offset + needed or its doubling does not fit size_t, ensure fails.      *)
C24_EnsureCapacity ==
    phase = "ensured" =>
       /\ ret = 1 => Ensured
       /\ SumWraps \/ DoublingWraps => ret = 0

(* C24 for the requests whose sum with the offset fits size_t. *)
C24_EnsureCapacityOfSum ==
    phase = "ensured" /\ ~SumWraps =>
       /\ ret = 1 => Ensured
       /\ DoublingWraps => ret = 0

(* A success with a buffer that is too small: the sum wrapped. *)
C24_TooSmall ==
    /\ phase = "ensured"
    /\ ret = 1
    /\ SumWraps
    /\ Len(heap[pb.buffer].bytes) < opts.offset + opts.needed

(* The buffer has been replaced by a larger one that keeps the bytes. *)
C24_Grown ==
    /\ phase = "ensured"
    /\ ret = 1
    /\ pb.buffer # 1
    /\ opts.offset > 0
    /\ Ensured

(* The doubling did not fit and ensure failed. *)
C24_DoublingRefused ==
    /\ phase = "ensured"
    /\ DoublingWraps
    /\ ret = 0
    /\ ~flags.nomem

(***************************************************************************)
(* The item after parse_string (tests/parse_string.c, assert_is_string).   *)
(***************************************************************************)
(* What assert_is_string looks at besides is_reference. *)
PlainString(item) ==
    /\ item.next = NULL
    /\ item.child = NULL
    /\ item.type = "String"
    /\ ~item.string_is_const
    /\ item.name = NULL

(* C25: after parse_string succeeded on the zeroed item, next and child    *)
(* are null, the kind is String, the name is null, string_is_const is      *)
(* false and is_reference is true.                                         *)
C25_ItemIsString ==
    phase = "parsed" /\ ret # NULL =>
       PlainString(heap[StaticItem]) /\ heap[StaticItem].is_reference

(* C25 with the flag as parse_string leaves it: the item owns its string. *)
C25_ItemOwnsString ==
    phase = "parsed" /\ ret # NULL =>
       /\ PlainString(heap[StaticItem])
       /\ ~heap[StaticItem].is_reference
       /\ ItemString # NULL
       /\ heap[ItemString].live

(* parse_string has succeeded on a literal with an escape in it. *)
C25_Parsed ==
    /\ phase = "parsed"
    /\ ret # NULL
    /\ IsLiteral(text)
    /\ Len(heap[ItemString].bytes) + 2 < Len(text)

(***************************************************************************)
(* Releases during a parse call.                                           *)
(***************************************************************************)
(* C26: during a parse call, whether it succeeds or fails and wherever it  *)
(* fails, no block is given to the release hook twice and no block is used *)
(* after its release.                                                      *)
C26_ReleasedOnce == phase = "parsed" => ~flags.dfree /\ ~flags.uaf

(* C26 for the calls that return a tree. *)
C26_ReleasedOnceOnSuccess ==
    phase = "parsed" /\ root # NULL => ~flags.dfree /\ ~flags.uaf

(* C26 for the calls that fail outside every string literal: the text      *)
(* holds no backslash.                                                     *)
C26_ReleasedOnceWithoutEscape ==
    phase = "parsed" /\ (\A i \in 1..Len(text) : text[i] # 92)
       => ~flags.dfree /\ ~flags.uaf

(* A string released twice: the literal is the root, an entry of an array, *)
(* the key of a member.                                                    *)
C26_TwiceAtRoot ==
    /\ phase = "parsed"
    /\ flags.dfree
    /\ Len(text) > 0
    /\ text[1] = 34

C26_TwiceInArray ==
    /\ phase = "parsed"
    /\ flags.dfree
    /\ Len(text) > 1
    /\ text[1] = 91
    /\ text[2] = 34

C26_TwiceInKey ==
    /\ phase = "parsed"
    /\ flags.dfree
    /\ Len(text) > 1
    /\ text[1] = 123
    /\ errp <= 3

(***************************************************************************)
(* The bytes cJSON_Minify touches.                                         *)
(***************************************************************************)
Minified == phase \in {"minified", "reminified"}

(* C27: cJSON_Minify reads and writes no byte beyond the terminator of its *)
(* input, whatever the input ends in, and the read cursor is never behind  *)
(* the write cursor.                                                       *)
C27_MinifyInBounds ==
    Minified => maxRead <= NulAt(text) /\ ret <= NulAt(text) /\ ~opts.behind

(* C27 without the bounds: the read cursor is never behind the write       *)
(* cursor, and no byte is written at or beyond the highest byte read.      *)
C27_CursorsOrdered ==
    Minified => ~opts.behind /\ opts.into <= opts.json /\ ret <= maxRead

(* The text holds no quote and no opener of a block comment. *)
NoLiteralNoBlock ==
    /\ \A i \in 1..Len(text) : text[i] # 34
    /\ \A i \in 1..(Len(text) - 1) : ~(text[i] = 47 /\ text[i + 1] = 42)

(* C27 for the texts without string literal and without block comment. *)
C27_InBoundsWithoutLiteralAndBlock ==
    Minified /\ NoLiteralNoBlock =>
       maxRead <= NulAt(text) /\ ret <= NulAt(text)

(* The input ends inside a block comment: read beyond the terminator. *)
C27_OpenBlock ==
    /\ phase = "minified"
    /\ text = <<47, 42, 97>>
    /\ maxRead > NulAt(text)

(* The input ends inside a string literal. *)
C27_OpenLiteral ==
    /\ phase = "minified"
    /\ text = <<34, 97>>
    /\ maxRead > NulAt(text)

(* The input ends behind a backslash in a string literal; bytes are        *)
(* written beyond the terminator as well.                                  *)
C27_OpenEscape ==
    /\ phase = "minified"
    /\ text = <<34, 92>>
    /\ maxRead > NulAt(text)
    /\ ret > NulAt(text)

(* A closed literal and a closed comment: the call stays inside. *)
C27_Closed ==
    /\ phase = "minified"
    /\ text = <<34, 92, 34, 34, 47>>
    /\ maxRead = NulAt(text)

(***************************************************************************)
(* The output buffer of parse_string.                                      *)
(***************************************************************************)
(* C28: what parse_string writes while it decodes a literal the scan       *)
(* accepted stays inside the buffer of scan length + 1 bytes it allocated: *)
(* the decoded bytes and, when it succeeds, the terminator.                *)
C28_DecodeInBuffer ==
    phase = "parsed" /\ ItemString # NULL =>
       /\ ~flags.oob
       /\ Len(heap[ItemString].bytes) + (IF ret # NULL THEN 1 ELSE 0)
             <= heap[ItemString].cap

(* A literal with a \u escape has been decoded to bytes of UTF-8, and      *)
(* bytes of the buffer are left over.                                      *)
C28_Witness ==
    /\ phase = "parsed"
    /\ ret # NULL
    /\ \E i \in 1..Len(heap[ItemString].bytes) :
          heap[ItemString].bytes[i] >= 224
    /\ Len(heap[ItemString].bytes) + 1 < heap[ItemString].cap

(* A literal without escape fills the buffer to its last byte. *)
C28_ExactFit ==
    /\ phase = "parsed"
    /\ ret # NULL
    /\ Len(heap[ItemString].bytes) > 1
    /\ Len(heap[ItemString].bytes) + 1 = heap[ItemString].cap

(***************************************************************************)
(* The printer with a buffer against the printer without one.              *)
(***************************************************************************)
(* C29: the text printed into a buffer, the growing one of                 *)
(* cJSON_PrintBuffered or the caller's of cJSON_PrintPreallocated, is byte *)
(* for byte the text cJSON_Print or cJSON_PrintUnformatted gives for the   *)
(* same tree and the same fmt; and with no allocation refused the growing  *)
(* buffer gives a text exactly when the printer without a buffer does.     *)
C29_ModesAgree ==
    phase \in {"preallocated", "buffered"} =>
       /\ ret = 1 => out = Expected
       /\ phase = "buffered" /\ ~flags.nomem =>
             (ret = 1 <=> Expected # NoText)

(* Nested objects, formatted, printed into a buffer that had to grow. *)
C29_Witness ==
    /\ phase = "buffered"
    /\ ret = 1
    /\ opts.fmt
    /\ Cardinality(Buffers(heap)) > 1
    /\ out = <<123, 10, 9, 34, 97, 34, 58, 9, 123, 10, 9, 9, 34, 98, 34, 58,
               9, 123, 10, 9, 9, 125, 10, 9, 125, 10, 125>>

(* The same text in the caller's buffer. *)
C29_Preallocated ==
    /\ phase = "preallocated"
    /\ ret = 1
    /\ opts.fmt
    /\ Len(out) > 20
    /\ out = Expected

(* A Raw node printed through the growing buffer. *)
C29_Raw ==
    /\ phase = "buffered"
    /\ ret = 1
    /\ opts.alter.type = "Raw"
    /\ out = Expected

(***************************************************************************)
(* Reads of the printer behind the terminator of a node's string.          *)
(***************************************************************************)
(* The item is a Raw node with a payload. *)
RawItem ==
    /\ root # NULL
    /\ heap[root].type = "Raw"
    /\ heap[root].string # NULL

(* C30: the printer reads no byte of a node's string or name behind that   *)
(* string's terminator; a Raw node is copied into the buffer with          *)
(* length + 1 bytes of its payload.                                        *)
C30_WithinTerminator ==
    phase \in {"preallocated", "buffered"} => pb.beyond = 0

(* A tree without a Raw node that has a payload is printed without a read  *)
(* behind a terminator.                                                    *)
C30_WithinTerminatorWithoutRaw ==
    (/\ phase \in {"preallocated", "buffered"}
     /\ \A b \in 1..Len(heap) :
           heap[b].kind = "node" /\ heap[b].type = "Raw" =>
              heap[b].string = NULL)
       => pb.beyond = 0

(* A Raw item was copied with sizeof_NUL - 1 bytes from behind its         *)
(* terminator.                                                             *)
C30_RawOverread ==
    /\ phase = "buffered"
    /\ ret = 1
    /\ RawItem
    /\ pb.beyond = sizeof_NUL - 1
    /\ pb.wr = Len(out) + sizeof_NUL

(* The caller's buffer has room for the payload and its terminator, and    *)
(* the call fails: the copy asks for sizeof_NUL bytes behind the payload.  *)
C30_RawRefused ==
    /\ phase = "preallocated"
    /\ ret = 0
    /\ RawItem
    /\ Len(heap[heap[root].string].bytes) + 1 <= opts.len

(* A string with escapes was printed from a tree without a Raw node. *)
C30_Escaped ==
    /\ phase = "buffered"
    /\ ret = 1
    /\ opts.alter.node = NULL
    /\ out = <<34, 97, 92, 110, 92, 117, 48, 48, 48, 49, 34>>
    /\ pb.beyond = 0

=============================================================================
